---- MODULE Spec2Model ----
(***************************************************************************)
(* SmartEventAdder: the CLI orchestrator (src/main.py) with its input      *)
(* sanitizer, its field validator and its confirmation step, as a state    *)
(* machine.  Python strings are TLA+ strings; a Python value of a JSON     *)
(* record (None, str, int, bool) is a tagged record, so that values of     *)
(* different Python types can be compared.                                 *)
(***************************************************************************)
EXTENDS Integers, Sequences, FiniteSets, TLC

VARIABLES
    pc,            \* the position of the run in main() / of the harness
    raw_email,     \* the text get_email_input returned
    email_text,    \* main's email_text (raw, then sanitized)
    response_text, \* response.text of the model's answer in extract_event_details
    http_request,  \* the request the HTTP service received: endpoint and body
    http_response, \* the response of the HTTP handler: status and body
    calendar_result, \* what the last call of Calendar returned ("None" before it)
    service,       \* the HTTP service process: vertexai's global configuration and
                   \* the requests it is handling
    extracted,     \* the dict as extract_event_details returned it
    event_data,    \* main's event_data: a dict, key -> value
    first_result,  \* [data, printed] after the first validate_extracted_data
    printed,       \* what was printed to the console, in order
    calls,         \* the collaborator calls made, in order
    raised,        \* the exception that ended the last step ("none" if it returned)
    reads,         \* what input() returned or raised, in order
    confirmed,     \* what get_user_confirmation returned
    exit_status,   \* the process's exit status (-1 while running)
    outcome        \* RUNNING, CREATED, CANCELLED or FAILED

vars == <<pc, raw_email, email_text, response_text, http_request, http_response,
         calendar_result, service,
         extracted, event_data, first_result, printed, calls, raised,
          reads, confirmed, exit_status, outcome>>

-----------------------------------------------------------------------------
(* Python values *)

None == [t |-> "none", s |-> "", n |-> 0]
PyStr(x) == [t |-> "str", s |-> x, n |-> 0]
PyInt(k) == [t |-> "int", s |-> "", n |-> k]
PyBool(b) == [t |-> "bool", s |-> "", n |-> IF b THEN 1 ELSE 0]

\* bool(v): None, "", 0 and False are falsy
Truthy(v) ==
    CASE v.t = "none" -> FALSE
      [] v.t = "str"  -> Len(v.s) > 0
      [] OTHER        -> v.n # 0

\* dict.get(key): the value, or None when the key is absent
Get(d, key) == IF key \in DOMAIN d THEN d[key] ELSE None

-----------------------------------------------------------------------------
(* Python str operations *)

Ch(s, i) == IF 1 <= i /\ i <= Len(s) THEN SubSeq(s, i, i) ELSE ""

Whitespace == {" ", "\n", "\t", "\r"}

\* str.lstrip(): from the first character that is not whitespace
LStrip(s) ==
    IF \A i \in 1..Len(s) : Ch(s, i) \in Whitespace THEN ""
    ELSE LET first == CHOOSE i \in 1..Len(s) :
                          /\ Ch(s, i) \notin Whitespace
                          /\ \A j \in 1..(i - 1) : Ch(s, j) \in Whitespace
         IN  SubSeq(s, first, Len(s))

\* str.rstrip(): up to the last character that is not whitespace
RStrip(s) ==
    IF \A i \in 1..Len(s) : Ch(s, i) \in Whitespace THEN ""
    ELSE LET last == CHOOSE i \in 1..Len(s) :
                         /\ Ch(s, i) \notin Whitespace
                         /\ \A j \in (i + 1)..Len(s) : Ch(s, j) \in Whitespace
         IN  SubSeq(s, 1, last)

\* str.strip()
Strip(s) == RStrip(LStrip(s))

UpperLetters == "ABCDEFGHIJKLMNOPQRSTUVWXYZ"
LowerLetters == "abcdefghijklmnopqrstuvwxyz"

LowerCh(c) ==
    IF \E i \in 1..26 : Ch(UpperLetters, i) = c
    THEN Ch(LowerLetters, CHOOSE i \in 1..26 : Ch(UpperLetters, i) = c)
    ELSE c

RECURSIVE Lower(_)
\* str.lower()
Lower(s) == IF Len(s) = 0 THEN "" ELSE LowerCh(Ch(s, 1)) \o Lower(Tail(s))

StartsWith(s, p) == Len(p) <= Len(s) /\ SubSeq(s, 1, Len(p)) = p

\* p in s
Contains(s, p) ==
    \E i \in 1..(Len(s) - Len(p) + 1) : SubSeq(s, i, i + Len(p) - 1) = p

RECURSIVE Replace(_, _)
\* s.replace(p, ''): every non-overlapping occurrence, scanning left to right
Replace(s, p) ==
    IF ~Contains(s, p) THEN s
    ELSE LET at == CHOOSE i \in 1..(Len(s) - Len(p) + 1) :
                       /\ SubSeq(s, i, i + Len(p) - 1) = p
                       /\ \A j \in 1..(i - 1) : SubSeq(s, j, j + Len(p) - 1) # p
         IN  SubSeq(s, 1, at - 1) \o Replace(SubSeq(s, at + Len(p), Len(s)), p)

Digits == {"0", "1", "2", "3", "4", "5", "6", "7", "8", "9"}
IsDigit(c) == c \in Digits
DigitVal(c) == CHOOSE k \in 0..9 : Ch("0123456789", k + 1) = c

RECURSIVE ToInt(_)
\* int(s) of a matched group: digits, with surrounding blanks ignored
ToInt(s) ==
    IF Len(s) = 0 THEN 0
    ELSE IF Ch(s, Len(s)) = " " THEN ToInt(SubSeq(s, 1, Len(s) - 1))
    ELSE IF Ch(s, 1) = " " THEN ToInt(Tail(s))
    ELSE 10 * ToInt(SubSeq(s, 1, Len(s) - 1)) + DigitVal(Ch(s, Len(s)))

-----------------------------------------------------------------------------
(* datetime.strptime, as main.py calls it.  The format is compiled to a     *)
(* regular expression that is matched at the start of the string; each     *)
(* directive is an ordered alternation, the first alternative that lets    *)
(* the rest of the expression match wins, and a match that does not end at *)
(* the end of the string is "unconverted data remains".                    *)

\* the positions after each alternative of %m that matches at i, in order:
\* 1[0-2] | 0[1-9] | [1-9]
MonthEnds(s, i) ==
    (IF Ch(s, i) = "1" /\ Ch(s, i + 1) \in {"0", "1", "2"} THEN <<i + 2>> ELSE <<>>)
    \o (IF Ch(s, i) = "0" /\ Ch(s, i + 1) \in Digits \ {"0"} THEN <<i + 2>> ELSE <<>>)
    \o (IF Ch(s, i) \in Digits \ {"0"} THEN <<i + 1>> ELSE <<>>)

\* %d: 3[0-1] | [1-2]\d | 0[1-9] | [1-9] | " "[1-9]
DayEnds(s, i) ==
    (IF Ch(s, i) = "3" /\ Ch(s, i + 1) \in {"0", "1"} THEN <<i + 2>> ELSE <<>>)
    \o (IF Ch(s, i) \in {"1", "2"} /\ IsDigit(Ch(s, i + 1)) THEN <<i + 2>> ELSE <<>>)
    \o (IF Ch(s, i) = "0" /\ Ch(s, i + 1) \in Digits \ {"0"} THEN <<i + 2>> ELSE <<>>)
    \o (IF Ch(s, i) \in Digits \ {"0"} THEN <<i + 1>> ELSE <<>>)
    \o (IF Ch(s, i) = " " /\ Ch(s, i + 1) \in Digits \ {"0"} THEN <<i + 2>> ELSE <<>>)

\* %H: 2[0-3] | [0-1]\d | \d
HourEnds(s, i) ==
    (IF Ch(s, i) = "2" /\ Ch(s, i + 1) \in {"0", "1", "2", "3"} THEN <<i + 2>> ELSE <<>>)
    \o (IF Ch(s, i) \in {"0", "1"} /\ IsDigit(Ch(s, i + 1)) THEN <<i + 2>> ELSE <<>>)
    \o (IF IsDigit(Ch(s, i)) THEN <<i + 1>> ELSE <<>>)

\* %M: [0-5]\d | \d
MinuteEnds(s, i) ==
    (IF Ch(s, i) \in {"0", "1", "2", "3", "4", "5"} /\ IsDigit(Ch(s, i + 1))
     THEN <<i + 2>> ELSE <<>>)
    \o (IF IsDigit(Ch(s, i)) THEN <<i + 1>> ELSE <<>>)

\* the first element of a sequence of positions that is in the set ok, or 0
FirstOk(ends, ok) ==
    IF \E k \in 1..Len(ends) : ends[k] \in ok
    THEN ends[CHOOSE k \in 1..Len(ends) :
                  ends[k] \in ok /\ \A h \in 1..(k - 1) : ends[h] \notin ok]
    ELSE 0

IsLeap(y) == y % 4 = 0 /\ (y % 100 # 0 \/ y % 400 = 0)

DaysInMonth(y, m) ==
    IF m = 2 THEN (IF IsLeap(y) THEN 29 ELSE 28)
    ELSE IF m \in {4, 6, 9, 11} THEN 30 ELSE 31

\* the match of (?P<Y>\d\d\d\d)-(?P<m>...)-(?P<d>...) at the start of s:
\* [ok, m_end, end] with m_end the position after the month and end after the day
MatchDate(s) ==
    LET year_ok == \A i \in 1..4 : IsDigit(Ch(s, i))
        \* the positions where "-" and a day match
        day_ok == {j \in 7..8 : Ch(s, j) = "-" /\ Len(DayEnds(s, j + 1)) > 0}
        m_end == FirstOk(MonthEnds(s, 6), day_ok)
    IN  IF year_ok /\ Ch(s, 5) = "-" /\ m_end # 0
        THEN [ok |-> TRUE, m_end |-> m_end, end |-> DayEnds(s, m_end + 1)[1]]
        ELSE [ok |-> FALSE, m_end |-> 0, end |-> 0]

\* datetime.strptime(s, '%Y-%m-%d') on a str: "ok" or "ValueError"
StrptimeDateStr(s) ==
    LET m == MatchDate(s)
        year == ToInt(SubSeq(s, 1, 4))
        month == ToInt(SubSeq(s, 6, m.m_end - 1))
        day == ToInt(SubSeq(s, m.m_end + 1, m.end - 1))
    IN  IF ~m.ok THEN "ValueError"                  \* does not match format
        ELSE IF m.end # Len(s) + 1 THEN "ValueError"  \* unconverted data remains
        ELSE IF year < 1 THEN "ValueError"            \* year 0 is out of range
        ELSE IF day > DaysInMonth(year, month) THEN "ValueError"
        ELSE "ok"

\* the match of (?P<H>...):(?P<M>...) at the start of s
MatchTime(s) ==
    LET \* the positions where ":" and a minute match
        min_ok == {j \in 2..3 : Ch(s, j) = ":" /\ Len(MinuteEnds(s, j + 1)) > 0}
        h_end == FirstOk(HourEnds(s, 1), min_ok)
    IN  IF h_end # 0
        THEN [ok |-> TRUE, h_end |-> h_end, end |-> MinuteEnds(s, h_end + 1)[1]]
        ELSE [ok |-> FALSE, h_end |-> 0, end |-> 0]

\* datetime.strptime(s, '%H:%M') on a str
StrptimeTimeStr(s) ==
    LET m == MatchTime(s)
    IN  IF ~m.ok THEN "ValueError"
        ELSE IF m.end # Len(s) + 1 THEN "ValueError"
        ELSE "ok"

\* datetime.strptime(v, '%Y-%m-%d'): a value that is not a str is a TypeError
StrptimeDate(v) == IF v.t # "str" THEN "TypeError" ELSE StrptimeDateStr(v.s)

\* datetime.strptime(v, '%H:%M')
StrptimeTime(v) == IF v.t # "str" THEN "TypeError" ELSE StrptimeTimeStr(v.s)

-----------------------------------------------------------------------------
(* validate_extracted_data *)

\* one printed line: what it says, the value it quotes, the fields it names
Msg(kind, value, fields) == [kind |-> kind, value |-> value, fields |-> fields]

required_keys == {"summary", "date", "start_time", "location"}

\* a variant that fills a missing key with the empty string
EnsureKeys_EmptyString(d) ==
    [k \in DOMAIN d \cup required_keys |-> IF k \in DOMAIN d THEN d[k] ELSE PyStr("")]

\* a variant that rebuilds the dict from the four keys and drops the others
EnsureKeys_OnlyRequired(d) == [k \in required_keys |-> Get(d, k)]

\* for key in required_keys: if key not in event_data: event_data[key] = None
EnsureKeys(d) ==
    [k \in DOMAIN d \cup required_keys |-> IF k \in DOMAIN d THEN d[k] ELSE None]

\* a variant of the date block that sets the wrong key to None
ValidateDate_NullsWrongKey(r) ==
    IF r.exc # "none" \/ ~Truthy(Get(r.data, "date")) THEN r
    ELSE CASE StrptimeDate(r.data["date"]) = "ok" -> r
           [] StrptimeDate(r.data["date"]) = "ValueError" ->
                [r EXCEPT !.out = Append(@, Msg("Invalid date format", r.data["date"], <<>>)),
                          !.data = [@ EXCEPT !["start_time"] = None]]
           [] OTHER -> [r EXCEPT !.exc = StrptimeDate(r.data["date"])]

\* The date block.  r is [data, out, exc]: the dict, the lines printed so far
\* and the exception raised ("none" while running).  strptime's ValueError is
\* caught (warning, then None); any other exception leaves the function.
ValidateDate(r) ==
    IF r.exc # "none" \/ ~Truthy(Get(r.data, "date")) THEN r
    ELSE CASE StrptimeDate(r.data["date"]) = "ok" -> r
           [] StrptimeDate(r.data["date"]) = "ValueError" ->
                [r EXCEPT !.out = Append(@, Msg("Invalid date format", r.data["date"], <<>>)),
                          !.data = [@ EXCEPT !["date"] = None]]
           [] OTHER -> [r EXCEPT !.exc = StrptimeDate(r.data["date"])]

\* a variant of the start_time block that prints after setting the field to None
ValidateTime_PrintsAfterNulling(r) ==
    IF r.exc # "none" \/ ~Truthy(Get(r.data, "start_time")) THEN r
    ELSE CASE StrptimeTime(r.data["start_time"]) = "ok" -> r
           [] StrptimeTime(r.data["start_time"]) = "ValueError" ->
                [r EXCEPT !.out = Append(@, Msg("Invalid time format", None, <<>>)),
                          !.data = [@ EXCEPT !["start_time"] = None]]
           [] OTHER -> [r EXCEPT !.exc = StrptimeTime(r.data["start_time"])]

\* The start_time block.
ValidateTime(r) ==
    IF r.exc # "none" \/ ~Truthy(Get(r.data, "start_time")) THEN r
    ELSE CASE StrptimeTime(r.data["start_time"]) = "ok" -> r
           [] StrptimeTime(r.data["start_time"]) = "ValueError" ->
                [r EXCEPT !.out = Append(@, Msg("Invalid time format", r.data["start_time"], <<>>)),
                          !.data = [@ EXCEPT !["start_time"] = None]]
           [] OTHER -> [r EXCEPT !.exc = StrptimeTime(r.data["start_time"])]

\* validate_extracted_data(event_data): the dict is changed in place, so what
\* was done before an exception stays done
validate_extracted_data(d) ==
    ValidateTime(ValidateDate([data |-> EnsureKeys(d), out |-> <<>>, exc |-> "none"]))

-----------------------------------------------------------------------------
(* validate_email_input *)

dangerous_patterns == <<"<script", "</script>", "javascript:", "data:">>

max_length == 10000

min_length == 20

RECURSIVE RemovePatterns_SkipsLastPattern(_, _)
\* a variant that never removes the last pattern of the list
RemovePatterns_SkipsLastPattern(s, pats) ==
    IF Len(pats) <= 1 THEN s
    ELSE RemovePatterns_SkipsLastPattern(Replace(s, Head(pats)), Tail(pats))

RECURSIVE RemovePatterns(_, _)
\* for pattern in dangerous_patterns: email_text = email_text.replace(pattern, '')
RemovePatterns(s, pats) ==
    IF Len(pats) = 0 THEN s ELSE RemovePatterns(Replace(s, Head(pats)), Tail(pats))

\* a variant that cuts the trimmed text to the maximum before the removal
Sanitized_CutsBeforeRemoval(text) ==
    LET trimmed == Strip(text)
    IN  IF Len(trimmed) > max_length
        THEN [text |-> RemovePatterns(SubSeq(trimmed, 1, max_length), dangerous_patterns),
              out |-> <<Msg("Email content truncated", None, <<>>)>>]
        ELSE [text |-> RemovePatterns(trimmed, dangerous_patterns), out |-> <<>>]

\* the text after strip, removal and truncation, and the truncation notice
Sanitized(text) ==
    LET cleaned == RemovePatterns(Strip(text), dangerous_patterns)
    IN  IF Len(cleaned) > max_length
        THEN [text |-> SubSeq(cleaned, 1, max_length),
              out |-> <<Msg("Email content truncated", None, <<>>)>>]
        ELSE [text |-> cleaned, out |-> <<>>]

\* the minimum-length check on the sanitized text
TooShort(text) == Len(Strip(text)) < min_length

\* a variant that checks the minimum length on the trimmed input, before the
\* denylisted substrings are removed
validate_email_input_ChecksRawLength(text) ==
    IF Len(text) = 0 \/ Len(Strip(text)) = 0
    THEN [text |-> text, out |-> <<>>, exc |-> "ValueError",
          msg |-> "Email content cannot be empty."]
    ELSE LET c == Sanitized(text)
         IN  IF Len(Strip(text)) < min_length
             THEN [text |-> c.text, out |-> c.out, exc |-> "ValueError",
                   msg |-> "Email content too short."]
             ELSE [text |-> c.text, out |-> c.out, exc |-> "none", msg |-> ""]

\* validate_email_input(email_text): [text, out, exc, msg]
validate_email_input(text) ==
    IF Len(text) = 0 \/ Len(Strip(text)) = 0
    THEN [text |-> text, out |-> <<>>, exc |-> "ValueError",
          msg |-> "Email content cannot be empty."]
    ELSE LET c == Sanitized(text)
         IN  IF TooShort(c.text)
             THEN [text |-> c.text, out |-> c.out, exc |-> "ValueError",
                   msg |-> "Email content too short."]
             ELSE [text |-> c.text, out |-> c.out, exc |-> "none", msg |-> ""]

-----------------------------------------------------------------------------
(* is_message_id_header *)

\* the number of occurrences of the character c in s
CountCh(s, c) == Cardinality({i \in 1..Len(s) : Ch(s, i) = c})

\* the position of the first c in s (0 if there is none)
IndexOf(s, c) ==
    IF CountCh(s, c) = 0 THEN 0
    ELSE CHOOSE i \in 1..Len(s) : Ch(s, i) = c /\ \A j \in 1..(i - 1) : Ch(s, j) # c

\* a variant without the test of the length
is_message_id_header_AnyLength(raw) ==
    LET text == Strip(raw)
        at == IndexOf(text, "@")
    IN  /\ CountCh(text, "@") = 1
        /\ CountCh(text, " ") = 0
        /\ at > 1 /\ at < Len(text)
        /\ \E j \in (at + 1)..Len(text) : Ch(text, j) \in {".", "-"}

is_message_id_header(raw) ==
    LET text == Strip(raw)
        at == IndexOf(text, "@")
        local_part == SubSeq(text, 1, at - 1)
        domain_part == SubSeq(text, at + 1, Len(text))
    IN  /\ CountCh(text, "@") > 0
        /\ CountCh(text, " ") = 0
        /\ ~(Len(text) < 10 \/ Len(text) > 200)
        /\ CountCh(text, "@") = 1           \* len(text.split('@')) == 2
        /\ Len(local_part) > 0 /\ Len(domain_part) > 0
        /\ (CountCh(domain_part, ".") > 0 \/ CountCh(domain_part, "-") > 0)

-----------------------------------------------------------------------------
(* get_user_confirmation *)

\* a variant in which location is a critical field too
critical_fields_WithLocation == <<"summary", "date", "start_time", "location">>

critical_fields == <<"summary", "date", "start_time">>

\* a variant that tests "is None" instead of truthiness
missing_fields_NoneOnly(d) == SelectSeq(critical_fields, LAMBDA f : Get(d, f) = None)

\* for field in critical_fields: if not event_data.get(field): missing_fields.append(field)
missing_fields(d) == SelectSeq(critical_fields, LAMBDA f : ~Truthy(Get(d, f)))

\* response = input().strip().lower(); return response in ['y', 'yes']
IsAffirmative(line) == Lower(Strip(line)) \in {"y", "yes"}

\* one input() call: a line, or the exception it raised
Line(at, text) == [at |-> at, kind |-> "line", text |-> text]
Interrupt(at) == [at |-> at, kind |-> "KeyboardInterrupt", text |-> ""]
EndOfInput(at) == [at |-> at, kind |-> "EOFError", text |-> ""]

\* a variant whose prompt takes every answer but "n" and "no" as a yes
get_user_confirmation_DefaultYes(d, read) ==
    IF Len(missing_fields(d)) > 0
    THEN [result |-> FALSE,
          out |-> <<Msg("Missing critical information", None, missing_fields(d))>>,
          reads |-> <<>>, exc |-> "none"]
    ELSE [result |-> read.kind = "line" /\ Lower(Strip(read.text)) \notin {"n", "no"},
          out |-> <<>>, reads |-> <<read>>,
          exc |-> IF read.kind = "EOFError" THEN read.kind ELSE "none"]

\* a variant that takes Ctrl-C at the prompt as a yes
get_user_confirmation_InterruptConfirms(d, read) ==
    IF Len(missing_fields(d)) > 0
    THEN [result |-> FALSE,
          out |-> <<Msg("Missing critical information", None, missing_fields(d))>>,
          reads |-> <<>>, exc |-> "none"]
    ELSE [result |-> read.kind = "KeyboardInterrupt" \/
                        (read.kind = "line" /\ IsAffirmative(read.text)),
          out |-> <<>>, reads |-> <<read>>,
          exc |-> IF read.kind = "EOFError" THEN read.kind ELSE "none"]

\* get_user_confirmation(event_data) when input() gives `read` (used only if
\* the prompt is reached): [result, out, reads, exc]
get_user_confirmation(d, read) ==
    IF Len(missing_fields(d)) > 0
    THEN [result |-> FALSE,
          out |-> <<Msg("Missing critical information", None, missing_fields(d)),
                    Msg("Cannot create calendar event without this information.", None, <<>>)>>,
          reads |-> <<>>, exc |-> "none"]
    ELSE LET prompt == <<Msg("Do you want to create this calendar event? (y/n)", None, <<>>)>>
         IN  CASE read.kind = "line" ->
                    [result |-> IsAffirmative(read.text), out |-> prompt,
                     reads |-> <<read>>, exc |-> "none"]
               [] read.kind = "KeyboardInterrupt" ->
                    [result |-> FALSE,
                     out |-> prompt \o <<Msg("Operation cancelled by user.", None, <<>>)>>,
                     reads |-> <<read>>, exc |-> "none"]
               [] OTHER ->
                    [result |-> FALSE, out |-> prompt, reads |-> <<read>>,
                     exc |-> read.kind]

-----------------------------------------------------------------------------
(* Calendar and create_calendar_event *)

\* one collaborator call: the function, its text argument, its dict argument
Call(fn, text, data) == [fn |-> fn, text |-> text, data |-> data]

NoDict == [k \in {} |-> None]

\* datetime.fromisoformat(f"{event_date}T{start_time}:00") on two strings that
\* strptime accepts: it takes the zero-padded forms YYYY-MM-DD and HH:MM only
FromIsoformatOK(date, time) ==
    /\ date.t = "str" /\ time.t = "str"
    /\ StrptimeDateStr(date.s) = "ok" /\ Len(date.s) = 10 /\ CountCh(date.s, " ") = 0
    /\ StrptimeTimeStr(time.s) = "ok" /\ Len(time.s) = 5

\* n as two digits
TwoDigits(n) ==
    Ch("0123456789", ((n \div 10) % 10) + 1) \o Ch("0123456789", (n % 10) + 1)

\* strftime('%Y') of year y: four digits where the C library pads the year,
\* the bare number where it does not
StrftimeYear(y, padded) ==
    LET four == TwoDigits(y \div 100) \o TwoDigits(y % 100)
        first == CHOOSE k \in 1..4 : Ch(four, k) # "0" /\ \A h \in 1..(k - 1) : Ch(four, h) = "0"
    IN  IF padded THEN four ELSE SubSeq(four, first, 4)

\* start_datetime + timedelta(hours=1) for the date and time of two canonical
\* strings: [exc, year, month, day, hour, minute]; year 10000 is an OverflowError
PlusOneHour(date, time) ==
    LET y == ToInt(SubSeq(date, 1, 4))
        m == ToInt(SubSeq(date, 6, 7))
        d == ToInt(SubSeq(date, 9, 10))
        H == ToInt(SubSeq(time, 1, 2))
        M == ToInt(SubSeq(time, 4, 5))
        At(yy, mm, dd, hh) ==
            [exc |-> IF yy > 9999 THEN "OverflowError" ELSE "none",
             year |-> yy, month |-> mm, day |-> dd, hour |-> hh, minute |-> M]
    IN  IF H < 23 THEN At(y, m, d, H + 1)
        ELSE IF d < DaysInMonth(y, m) THEN At(y, m, d + 1, 0)
        ELSE IF m < 12 THEN At(y, m + 1, 1, 0)
        ELSE At(y + 1, 1, 1, 0)

\* a variant with the HttpError handler only
CaughtByCalendar_HttpErrorOnly == {"HttpError"}

\* the exceptions that "except HttpError" and "except Exception" catch
CaughtByCalendar ==
    {"HttpError", "Exception", "KeyError", "ValueError", "OverflowError", "RefreshError"}

\* Calendar(event_data) when authenticate() raises auth_exc and
\* events().insert().execute() raises insert_exc ("none": it returns):
\* [result, exc, calls, out] with exc the exception that reaches the caller and
\* calls the insert call with the event it submits
CalendarRun(d, auth_exc, insert_exc, padded) ==
    LET Raise(e, made) ==
            [result |-> "None",
             exc |-> IF e \in CaughtByCalendar THEN "none" ELSE e,
             calls |-> made,
             out |-> IF e = "HttpError" THEN <<Msg("An error occurred", PyStr(e), <<>>)>>
                     ELSE IF e \in CaughtByCalendar
                     THEN <<Msg("An unexpected error occurred", PyStr(e), <<>>)>>
                     ELSE <<>>]
    IN  IF auth_exc # "none" THEN Raise(auth_exc, <<>>)
        ELSE IF ~({"date", "start_time"} \subseteq DOMAIN d) THEN Raise("KeyError", <<>>)
        ELSE IF ~FromIsoformatOK(d["date"], d["start_time"]) THEN Raise("ValueError", <<>>)
        ELSE LET end_datetime == PlusOneHour(d["date"].s, d["start_time"].s)
             IN  IF end_datetime.exc # "none" THEN Raise(end_datetime.exc, <<>>)
                 ELSE IF ~({"summary", "location"} \subseteq DOMAIN d)
                 THEN Raise("KeyError", <<>>)
                 ELSE LET start_rfc3339 == d["date"].s \o "T" \o d["start_time"].s
                                               \o ":00+09:00"
                          end_rfc3339 ==
                              StrftimeYear(end_datetime.year, padded) \o "-"
                                  \o TwoDigits(end_datetime.month) \o "-"
                                  \o TwoDigits(end_datetime.day) \o "T"
                                  \o TwoDigits(end_datetime.hour) \o ":"
                                  \o TwoDigits(end_datetime.minute) \o ":00+09:00"
                          event == [k \in {"summary", "location", "start", "end",
                                           "timeZone"} |->
                                       CASE k = "start" -> PyStr(start_rfc3339)
                                         [] k = "end" -> PyStr(end_rfc3339)
                                         [] k = "timeZone" -> PyStr("Asia/Tokyo")
                                         [] OTHER -> d[k]]
                          insert == <<Call("events.insert", "primary", event)>>
                      IN  IF insert_exc # "none" THEN Raise(insert_exc, insert)
                          ELSE [result |-> "event", exc |-> "none", calls |-> insert,
                                out |-> <<Msg("Event created successfully!",
                                              d["summary"], <<>>)>>]

\* Calendar(event_data): what it returns.  auth_ok and insert_ok are the
\* outcomes of authenticate() and of events().insert().
Calendar(d, auth_ok, insert_ok) ==
    CalendarRun(d, IF auth_ok THEN "none" ELSE "Exception",
                IF insert_ok THEN "none" ELSE "HttpError", TRUE).result

\* create_calendar_event(event_data, logger) given Calendar's result
create_calendar_event(result) ==
    IF result # "None"
    THEN [result |-> TRUE,
          out |-> <<Msg("SUCCESS! Calendar event created successfully!", None, <<>>)>>]
    ELSE [result |-> FALSE,
          out |-> <<Msg("Failed to create calendar event.", None, <<>>)>>]

-----------------------------------------------------------------------------
(* json.loads, for objects whose values are strings without escapes,
   integers, true, false and null: the records the prompt asks for *)

JsonWhitespace == {" ", "\t", "\n", "\r"}

\* the first position from i on that holds no JSON whitespace
SkipWs(s, i) ==
    IF \A j \in i..Len(s) : Ch(s, j) \in JsonWhitespace THEN Len(s) + 1
    ELSE CHOOSE j \in i..Len(s) :
             /\ Ch(s, j) \notin JsonWhitespace
             /\ \A k \in i..(j - 1) : Ch(s, k) \in JsonWhitespace

StartsWithAt(s, i, p) ==
    i + Len(p) - 1 <= Len(s) /\ SubSeq(s, i, i + Len(p) - 1) = p

\* JSONDecodeError(msg)
JsonError(msg) ==
    [ok |-> FALSE, kind |-> "error", data |-> NoDict, value |-> None, next |-> 0,
     err |-> msg]

JsonScalar(v, after) ==
    [ok |-> TRUE, kind |-> "scalar", data |-> NoDict, value |-> v, next |-> after,
     err |-> ""]

JsonDict(d, after) ==
    [ok |-> TRUE, kind |-> "dict", data |-> d, value |-> None, next |-> after,
     err |-> ""]

\* the string literal that opens at position i
ParseString(s, i) ==
    LET special == {j \in (i + 1)..Len(s) : Ch(s, j) \in {"\"", "\n", "\t", "\r"}}
    IN  IF special = {} THEN JsonError("Unterminated string starting at")
        ELSE LET stop == CHOOSE j \in special : \A k \in special : j <= k
             IN  IF Ch(s, stop) # "\"" THEN JsonError("Invalid control character at")
                 ELSE JsonScalar(PyStr(SubSeq(s, i + 1, stop - 1)), stop + 1)

\* the integer literal at position i: -?(0|[1-9][0-9]*)
ParseNumber(s, i) ==
    LET start == IF Ch(s, i) = "-" THEN i + 1 ELSE i
    IN  IF ~IsDigit(Ch(s, start)) THEN JsonError("Expecting value")
        ELSE LET last == IF Ch(s, start) = "0" THEN start
                         ELSE CHOOSE j \in start..Len(s) :
                                  /\ \A k \in start..j : IsDigit(Ch(s, k))
                                  /\ ~IsDigit(Ch(s, j + 1))
                 k == ToInt(SubSeq(s, start, last))
             IN  JsonScalar(PyInt(IF start = i THEN k ELSE 0 - k), last + 1)

\* the string, number or literal at position i
ParseScalar(s, i) ==
    IF Ch(s, i) = "\"" THEN ParseString(s, i)
    ELSE IF StartsWithAt(s, i, "null") THEN JsonScalar(None, i + 4)
    ELSE IF StartsWithAt(s, i, "true") THEN JsonScalar(PyBool(TRUE), i + 4)
    ELSE IF StartsWithAt(s, i, "false") THEN JsonScalar(PyBool(FALSE), i + 5)
    ELSE ParseNumber(s, i)

RECURSIVE ParseMembers(_, _, _)
\* the members of an object from position i on, added to acc; a repeated key
\* keeps its last value
ParseMembers(s, i, acc) ==
    IF Ch(s, i) # "\""
    THEN JsonError("Expecting property name enclosed in double quotes")
    ELSE LET key == ParseString(s, i)
         IN  IF ~key.ok THEN key
             ELSE LET colon == SkipWs(s, key.next)
                  IN  IF Ch(s, colon) # ":" THEN JsonError("Expecting ':' delimiter")
                      ELSE LET val == ParseScalar(s, SkipWs(s, colon + 1))
                           IN  IF ~val.ok THEN val
                               ELSE LET d == [k \in DOMAIN acc \cup {key.value.s} |->
                                                 IF k = key.value.s THEN val.value
                                                 ELSE acc[k]]
                                        after == SkipWs(s, val.next)
                                    IN  IF Ch(s, after) = "}" THEN JsonDict(d, after + 1)
                                        ELSE IF Ch(s, after) # ","
                                        THEN JsonError("Expecting ',' delimiter")
                                        ELSE ParseMembers(s, SkipWs(s, after + 1), d)

\* the object that opens at position i
ParseObject(s, i) ==
    LET first == SkipWs(s, i + 1)
    IN  IF Ch(s, first) = "}" THEN JsonDict(NoDict, first + 1)
        ELSE ParseMembers(s, first, NoDict)

\* json.loads(s)
json_loads(s) ==
    LET start == SkipWs(s, 1)
        v == IF Ch(s, start) = "{" THEN ParseObject(s, start) ELSE ParseScalar(s, start)
    IN  IF ~v.ok THEN v
        ELSE IF SkipWs(s, v.next) <= Len(s) THEN JsonError("Extra data")
        ELSE v

-----------------------------------------------------------------------------
(* extract_event_details *)

\* the markdown fence marker: three backticks; a backtick is written ^ in every
\* modelled text
Fence == "^^^"

\* response.text.strip() without its markdown code fence
FenceStripped(text) ==
    LET json_response == Strip(text)
    IN  IF StartsWith(json_response, Fence \o "json")
        THEN Replace(Replace(json_response, Fence \o "json\n"), "\n" \o Fence)
        ELSE IF StartsWith(json_response, Fence)
        THEN Replace(Replace(json_response, Fence \o "\n"), "\n" \o Fence)
        ELSE json_response

\* the head of the prompt, which ends "Email content:" and is followed by the text
PromptHead == "Extract event details from the following email as JSON.\nEmail content:\n"

Prompt(text) == PromptHead \o text \o "\n"

\* the calls extract_event_details makes to its collaborators, in order
ExtractCalls(text) ==
    <<Call("authenticate_google_services", "", NoDict),
      Call("vertexai.init", "", NoDict),
      Call("GenerativeModel", "gemini-2.0-flash-lite", NoDict),
      Call("generate_content", Prompt(text), NoDict)>>

\* a variant that repeats the generation request once when it fails
extract_event_details_RetriesGeneration(text, fail_at, message, response) ==
    IF fail_at > 0
    THEN [calls |-> SubSeq(ExtractCalls(text), 1, fail_at)
                        \o (IF fail_at = Len(ExtractCalls(text))
                            THEN <<ExtractCalls(text)[fail_at]>> ELSE <<>>),
          exc |-> "Exception", msg |-> message, data |-> NoDict]
    ELSE LET event_details == json_loads(FenceStripped(response))
         IN  IF event_details.ok
             THEN [calls |-> ExtractCalls(text), exc |-> "none", msg |-> "",
                   data |-> event_details.data]
             ELSE [calls |-> ExtractCalls(text), exc |-> "JSONDecodeError",
                   msg |-> event_details.err, data |-> NoDict]

\* a variant that returns an empty record when the answer does not parse
extract_event_details_EmptyRecordOnParseError(text, fail_at, message, response) ==
    IF fail_at > 0
    THEN [calls |-> SubSeq(ExtractCalls(text), 1, fail_at), exc |-> "Exception",
          msg |-> message, data |-> NoDict]
    ELSE [calls |-> ExtractCalls(text), exc |-> "none", msg |-> "",
          data |-> json_loads(FenceStripped(response)).data]

\* extract_event_details(project_id, location, email_text): [calls, exc, msg, data];
\* the call number fail_at (0: none) raises message, the model answers response
extract_event_details(text, fail_at, message, response) ==
    IF fail_at > 0
    THEN [calls |-> SubSeq(ExtractCalls(text), 1, fail_at), exc |-> "Exception",
          msg |-> message, data |-> NoDict]
    ELSE LET event_details == json_loads(FenceStripped(response))
         IN  IF event_details.ok
             THEN [calls |-> ExtractCalls(text), exc |-> "none", msg |-> "",
                   data |-> event_details.data]
             ELSE [calls |-> ExtractCalls(text), exc |-> "JSONDecodeError",
                   msg |-> event_details.err, data |-> NoDict]

\* an HTTP response: the status code and, of the body, success, message (or the
\* detail of an HTTPException) and calendar_result
HttpResponse(status, success, message, result) ==
    [status_code |-> status, success |-> success, message |-> message,
     calendar_result |-> result]

\* no response yet
NoResponse == HttpResponse(0, FALSE, "", "None")

\* an HTTP request: the endpoint and the JSON body, a dict
HttpRequest(endpoint, body) == [endpoint |-> endpoint, body |-> body]

\* no request: a run of main
NoRequest == HttpRequest("", NoDict)

\* a process that handles no concurrent requests
NoService == [vertexai |-> <<>>, runs |-> <<>>]

-----------------------------------------------------------------------------
(* the inputs of a run *)

Missing == [t |-> "missing", s |-> "", n |-> 0]

\* the dict with the keys of f whose value is not Missing
MkDict(f) == [k \in {k \in DOMAIN f : f[k] # Missing} |-> f[k]]

Record4(sm, dt, tm, lc) ==
    MkDict([k \in required_keys |->
              CASE k = "summary" -> sm [] k = "date" -> dt
                [] k = "start_time" -> tm [] OTHER -> lc])

EmailTexts ==
    {"Team meeting on 2024-01-15 at 14:30 in Room A",
     "  Lunch with Ana tomorrow, 12:00, Cafe Berlin \n",
     "<script>alert(1)</script>",
     "data: Review of the Q3 budget, Friday 10am",
     "Short", "", "   "}

MessageIdArg == "<CAB12345@mail.gmail.com>"
FileArg == "invite.txt"

\* what the model can return for main's run
WorkflowRecords ==
    {Record4(sm, dt, tm, lc) :
        sm \in {Missing, None, PyStr(""), PyStr("Team Meeting")},
        dt \in {Missing, None, PyStr(""), PyStr("2024-01-15"), PyStr("15/01/2024"),
                PyStr("2024-1-5"), PyInt(20240115), PyInt(0)},
        tm \in {None, PyStr("14:30"), PyStr("2:30 PM"), PyStr("9:05"), PyBool(TRUE)},
        lc \in {Missing, None, PyStr("Conference Room A")}}

RECURSIVE IntToStr(_)
\* str(k) for k >= 0
IntToStr(k) ==
    IF k < 10 THEN Ch("0123456789", k + 1)
    ELSE IntToStr(k \div 10) \o Ch("0123456789", (k % 10) + 1)

\* json.dumps(v) of a value
DumpValue(v) ==
    CASE v.t = "none" -> "null"
      [] v.t = "str"  -> "\"" \o v.s \o "\""
      [] v.t = "int"  -> IntToStr(v.n)
      [] OTHER        -> IF v.n = 1 THEN "true" ELSE "false"

RECURSIVE DumpMembers(_, _, _)
\* the members of d for the keys of the list, between the separators
DumpMembers(d, keys, sep) ==
    IF Len(keys) = 0 THEN ""
    ELSE IF Head(keys) \notin DOMAIN d THEN DumpMembers(d, Tail(keys), sep)
    ELSE sep[1] \o "\"" \o Head(keys) \o "\": " \o DumpValue(d[Head(keys)])
             \o DumpMembers(d, Tail(keys), <<sep[2], sep[2]>>)

\* json.dumps(d): the JSON object of a record, on one line
Dumps(d) ==
    "{" \o DumpMembers(d, <<"summary", "date", "start_time", "location">>, <<"", ", ">>)
        \o "}"

\* json.dumps(d, indent=2): one member per line
DumpsIndented(d) ==
    "{" \o DumpMembers(d, <<"summary", "date", "start_time", "location">>,
                       <<"\n  ", ",\n  ">>) \o "\n}"

\* the JSON texts a model answer wraps in a fence
JsonTexts ==
    {Dumps(Record4(PyStr("Team Meeting"), PyStr("2024-01-15"), PyStr("14:30"),
                   PyStr("Conference Room A"))),
     DumpsIndented(Record4(PyStr("Team Meeting"), PyStr("2024-01-15"), PyStr("14:30"),
                           None))}

FenceOpenings == {Fence \o "json", Fence}

\* what stands between a fence marker and the content
Breaks == {"\n", "", " \n", "\r\n"}

\* the whitespace around the whole answer: <<leading, trailing>>
Margins == {<<"", "">>, <<"  ", " \n">>}

\* J between an opening and a closing fence marker
Wrapped(margin, opening, before, J, after) ==
    margin[1] \o opening \o before \o J \o after \o Fence \o margin[2]

WrappedResponses ==
    {Wrapped(m, o, b, J, a) :
        m \in Margins, o \in FenceOpenings, b \in Breaks, J \in JsonTexts, a \in Breaks}

\* answers that are not JSON
MalformedResponses ==
    {"Invalid JSON response", "", "{\"summary\": \"Team Meeting\", \"date\": "}

\* response.text of the model's answer
Responses ==
    {Dumps(d) : d \in WorkflowRecords} \cup {"  " \o J \o "  \n" : J \in JsonTexts}
        \cup WrappedResponses \cup MalformedResponses

ErrorMessages ==
    {"429 Quota exceeded", "Could not load Credentials", "Authentication failed",
     "Expecting value: line 1 column 1 (char 0)"}

\* what the operator types at the confirmation prompt
Answers == {"y", "yes", "Y", " YES ", "n", "no", "", "yeah", "y es"}

ConfirmReads ==
    {Line("confirm", a) : a \in Answers} \cup {Interrupt("confirm"), EndOfInput("confirm")}

-----------------------------------------------------------------------------
(* main *)

Init ==
    /\ pc = "load_environment"
    /\ raw_email = ""
    /\ email_text = ""
    /\ response_text = ""
    /\ http_request = NoRequest
    /\ http_response = NoResponse
    /\ calendar_result = "None"
    /\ service = NoService
    /\ extracted = NoDict
    /\ event_data = NoDict
    /\ first_result = [data |-> NoDict, printed |-> <<>>]
    /\ printed = <<>>
    /\ calls = <<>>
    /\ raised = "none"
    /\ reads = <<>>
    /\ confirmed = FALSE
    /\ exit_status = -1
    /\ outcome = "RUNNING"

\* a variant in which a failed step reports and the run goes on to extraction
Exit_RunGoesOn(status, result, exc, out) ==
    /\ pc' = "extract_event_details"
    /\ exit_status' = status
    /\ outcome' = result
    /\ raised' = exc
    /\ printed' = printed \o out

\* sys.exit(status), after printing out; exc is the exception that led here
Exit(status, result, exc, out) ==
    /\ pc' = "exit"
    /\ exit_status' = status
    /\ outcome' = result
    /\ raised' = exc
    /\ printed' = printed \o out

EndsWith(s, p) == Len(p) <= Len(s) /\ SubSeq(s, Len(s) - Len(p) + 1, Len(s)) = p

\* a variant that looks for "credentials" only
ExtractionHint_CredentialsOnly(message) ==
    IF Contains(Lower(message), "credentials")
    THEN <<Msg("Suggestion: Run ./setup_gcloud.sh to set up authentication", None, <<>>)>>
    ELSE <<>>

\* the remediation hint of main's extraction handler
ExtractionHint(message) ==
    IF \E lowered \in {Lower(message)} :
           Contains(lowered, "authentication") \/ Contains(lowered, "credentials")
    THEN <<Msg("Suggestion: Run ./setup_gcloud.sh to set up authentication", None, <<>>)>>
    ELSE <<>>

\* Step 1: config = load_environment()
LoadEnvironment ==
    /\ pc = "load_environment"
    /\ \E project_id_set \in BOOLEAN :
         IF project_id_set
         THEN /\ pc' = "get_email_input"
              /\ printed' = Append(printed, Msg("Environment loaded", None, <<>>))
              /\ UNCHANGED <<exit_status, outcome, raised>>
         ELSE Exit(1, "FAILED", "ValueError",
                   <<Msg("Configuration Error",
                         PyStr("GOOGLE_CLOUD_PROJECT_ID not found in .env file."), <<>>)>>)
    /\ UNCHANGED <<raw_email, email_text, response_text, http_request, http_response, calendar_result, extracted, event_data, first_result, calls,
                   reads, confirmed>>
    /\ UNCHANGED service

\* get_email_input() when sys.argv[1:] is empty or one of Args
GetEmailInputFrom(Args) ==
    /\ pc = "get_email_input"
    /\ \E argv \in {<<>>} \cup {<<a>> : a \in Args} :
       \E text \in EmailTexts, ok \in BOOLEAN :
         LET Return(t) == /\ pc' = "validate_email_input"
                          /\ raw_email' = t
                          /\ email_text' = t
                          /\ UNCHANGED <<exit_status, outcome, raised>>
         IN  IF Len(argv) > 0 /\ EndsWith(argv[1], ".txt")
             THEN \* the file's content, or FileNotFoundError
                  /\ IF ok THEN Return(text) /\ printed' = printed
                     ELSE /\ Exit(1, "FAILED", "FileNotFoundError",
                                  <<Msg("Error: File not found.", PyStr(argv[1]), <<>>)>>)
                          /\ UNCHANGED <<raw_email, email_text>>
                  /\ UNCHANGED <<calls, reads>>
             ELSE IF Len(argv) > 0 /\ is_message_id_header(argv[1])
             THEN /\ calls' = Append(calls,
                                     Call("fetch_email_by_message_id_header", argv[1], NoDict))
                  /\ IF ok
                     THEN /\ Return(text)
                          /\ printed' = printed \o
                               <<Msg("Detected Message-ID header", PyStr(argv[1]), <<>>),
                                 Msg("Email content fetched successfully!", None, <<>>)>>
                     ELSE /\ Exit(1, "FAILED", "Exception",
                                  <<Msg("Detected Message-ID header", PyStr(argv[1]), <<>>),
                                    Msg("Failed to fetch email", None, <<>>)>>)
                          /\ UNCHANGED <<raw_email, email_text>>
                  /\ UNCHANGED reads
             ELSE IF Len(argv) > 0
             THEN /\ Return(argv[1]) /\ printed' = printed
                  /\ UNCHANGED <<calls, reads>>
             ELSE \* interactive: lines until end of input, or Ctrl-C
                  /\ IF ok
                     THEN /\ Return(text)
                          /\ printed' = Append(printed, Msg("Enter your email content", None, <<>>))
                          /\ reads' = reads \o <<Line("email", text), EndOfInput("email")>>
                     ELSE /\ Exit(0, "CANCELLED", "KeyboardInterrupt",
                                  <<Msg("Enter your email content", None, <<>>),
                                    Msg("Operation cancelled by user.", None, <<>>)>>)
                          /\ reads' = Append(reads, Interrupt("email"))
                          /\ UNCHANGED <<raw_email, email_text>>
                  /\ UNCHANGED calls
    /\ UNCHANGED <<response_text, http_request, http_response, calendar_result, extracted, event_data, first_result, confirmed>>
    /\ UNCHANGED service

\* Step 2: email_text = get_email_input()
GetEmailInput == GetEmailInputFrom({FileArg, MessageIdArg} \cup EmailTexts)

\* Step 3: email_text = validate_email_input(email_text); its ValueError is
\* caught by main's "except ValueError"
ValidateEmailInput ==
    /\ pc = "validate_email_input"
    /\ \E r \in {validate_email_input(email_text)} :
           IF r.exc = "none"
           THEN /\ pc' = "extract_event_details"
                /\ email_text' = r.text
                /\ printed' = printed \o r.out \o <<Msg("Email content validated", None, <<>>)>>
                /\ UNCHANGED <<exit_status, outcome, raised>>
           ELSE /\ Exit(1, "FAILED", r.exc,
                        r.out \o <<Msg("Configuration Error", PyStr(r.msg), <<>>)>>)
                /\ UNCHANGED email_text
    /\ UNCHANGED <<raw_email, response_text, http_request, http_response, calendar_result, extracted, event_data, first_result, calls, reads, confirmed>>
    /\ UNCHANGED service

\* Step 4: event_data = extract_event_details(...), or its exception
ExtractEventDetails ==
    /\ pc = "extract_event_details"
    /\ \/ \E response \in Responses :
            \E r \in {extract_event_details(email_text, 0, "", response)} :
                /\ calls' = Append(calls, Call("extract_event_details", email_text, NoDict))
                               \o r.calls
                /\ response_text' = response
                /\ IF r.exc = "none"
                   THEN /\ pc' = "validate_extracted_data"
                        /\ extracted' = r.data
                        /\ event_data' = r.data
                        /\ printed' = Append(printed, Msg("AI analysis completed", None, <<>>))
                        /\ UNCHANGED <<exit_status, outcome, raised>>
                   ELSE /\ Exit(1, "FAILED", r.exc,
                                <<Msg("AI analysis failed", PyStr(r.msg), <<>>)>>
                                    \o ExtractionHint(r.msg))
                        /\ UNCHANGED <<extracted, event_data>>
       \/ \E fail_at \in 1..Len(ExtractCalls(email_text)), e \in ErrorMessages :
            \E r \in {extract_event_details(email_text, fail_at, e, "")} :
                /\ calls' = Append(calls, Call("extract_event_details", email_text, NoDict))
                               \o r.calls
                /\ Exit(1, "FAILED", r.exc,
                        <<Msg("AI analysis failed", PyStr(r.msg), <<>>)>>
                            \o ExtractionHint(r.msg))
                /\ UNCHANGED <<response_text, extracted, event_data>>
    /\ UNCHANGED <<raw_email, email_text, http_request, http_response, calendar_result, first_result, reads, confirmed>>
    /\ UNCHANGED service

\* Step 5: event_data = validate_extracted_data(event_data); an exception
\* that is not a ValueError reaches main's "except Exception"
ValidateExtractedData ==
    /\ pc = "validate_extracted_data"
    /\ \E r \in {validate_extracted_data(event_data)} :
           /\ event_data' = r.data
           /\ IF r.exc = "none"
              THEN /\ pc' = "display_event_details"
                   /\ printed' = printed \o r.out
                   /\ first_result' = [data |-> r.data, printed |-> printed \o r.out]
                   /\ UNCHANGED <<exit_status, outcome, raised>>
              ELSE /\ Exit(1, "FAILED", r.exc,
                           r.out \o <<Msg("Unexpected error", None, <<>>)>>)
                   /\ UNCHANGED first_result
    /\ UNCHANGED <<raw_email, email_text, response_text, http_request, http_response, calendar_result, extracted, calls, reads, confirmed>>
    /\ UNCHANGED service

\* Step 6: display_event_details(event_data): a falsy field shows "Not found"
DisplayEventDetails ==
    /\ pc = "display_event_details"
    /\ pc' = "get_user_confirmation"
    /\ printed' = Append(printed,
          Msg("EXTRACTED EVENT DETAILS", None,
              SelectSeq(<<"summary", "date", "start_time", "location">>,
                        LAMBDA f : ~Truthy(Get(event_data, f)))))
    /\ UNCHANGED <<raw_email, email_text, response_text, http_request, http_response, calendar_result, extracted, event_data, first_result, calls,
                   raised, reads, confirmed, exit_status, outcome>>
    /\ UNCHANGED service

\* a variant that asks again after end of input or an answer that is neither
\* a yes nor a no
GetUserConfirmation_AsksAgain ==
    /\ pc = "get_user_confirmation"
    /\ \E read \in ConfirmReads :
       \E r \in {get_user_confirmation(event_data, read)} :
         /\ confirmed' = r.result
         /\ IF \/ r.exc # "none"
               \/ /\ r.reads # <<>> /\ read.kind = "line"
                  /\ Lower(Strip(read.text)) \notin {"y", "yes", "n", "no"}
            THEN /\ pc' = pc
                 /\ reads' = SelectSeq(reads, LAMBDA x : x.at # "confirm") \o r.reads
                 /\ UNCHANGED <<printed, exit_status, outcome, raised>>
            ELSE /\ reads' = reads \o r.reads
                 /\ IF ~r.result
                    THEN Exit(0, "CANCELLED", "none",
                              r.out \o <<Msg("Operation cancelled by user.", None, <<>>)>>)
                    ELSE /\ pc' = "create_calendar_event"
                         /\ printed' = printed \o r.out
                         /\ UNCHANGED <<exit_status, outcome, raised>>
    /\ UNCHANGED <<raw_email, email_text, response_text, http_request, http_response, calendar_result, extracted, event_data, first_result, calls>>
    /\ UNCHANGED service

\* Step 7: if not get_user_confirmation(event_data): sys.exit(0); an
\* EOFError of input() reaches main's "except Exception"
GetUserConfirmation ==
    /\ pc = "get_user_confirmation"
    /\ \E read \in ConfirmReads :
         LET r == get_user_confirmation(event_data, read)
         IN  /\ reads' = reads \o r.reads
             /\ confirmed' = r.result
             /\ IF r.exc # "none"
                THEN Exit(1, "FAILED", r.exc,
                          r.out \o <<Msg("Unexpected error", None, <<>>)>>)
                ELSE IF ~r.result
                THEN Exit(0, "CANCELLED", "none",
                          r.out \o <<Msg("Operation cancelled by user.", None, <<>>)>>)
                ELSE /\ pc' = "create_calendar_event"
                     /\ printed' = printed \o r.out
                     /\ UNCHANGED <<exit_status, outcome, raised>>
    /\ UNCHANGED <<raw_email, email_text, response_text, http_request, http_response, calendar_result, extracted, event_data, first_result, calls>>
    /\ UNCHANGED service

\* Step 8: success = create_calendar_event(event_data, logger)
CreateCalendarEvent ==
    /\ pc = "create_calendar_event"
    /\ calls' = Append(calls, Call("Calendar", "", event_data))
    /\ \E auth_ok \in BOOLEAN, insert_ok \in BOOLEAN :
         LET r == create_calendar_event(Calendar(event_data, auth_ok, insert_ok))
         IN  /\ calendar_result' = Calendar(event_data, auth_ok, insert_ok)
             /\ IF r.result
                THEN /\ pc' = "exit"
                     /\ exit_status' = 0
                     /\ outcome' = "CREATED"
                     /\ printed' = printed \o r.out \o
                          <<Msg("Event added to your calendar!",
                                Get(event_data, "summary"), <<>>)>>
                     /\ UNCHANGED raised
                ELSE Exit(1, "FAILED", "none", r.out)
    /\ UNCHANGED <<raw_email, email_text, response_text, http_request, http_response, extracted, event_data, first_result, reads,
                   confirmed>>
    /\ UNCHANGED service

Next ==
    \/ LoadEnvironment
    \/ GetEmailInput
    \/ ValidateEmailInput
    \/ ExtractEventDetails
    \/ ValidateExtractedData
    \/ DisplayEventDetails
    \/ GetUserConfirmation
    \/ CreateCalendarEvent

Spec == Init /\ [][Next]_vars

\* main is at one of its steps and moves on to another one: every step of Next
\* changes pc, and one can be taken wherever pc is not "exit"
Advance ==
    /\ pc # "exit"
    /\ pc' \in {"get_email_input", "validate_email_input", "extract_event_details",
                "validate_extracted_data", "display_event_details",
                "get_user_confirmation", "create_calendar_event", "exit"} \ {pc}

\* a run whose steps all return or raise: main is straight-line code, so the
\* step it is at is completed or fails
SpecFair == Spec /\ WF_pc(Advance)

-----------------------------------------------------------------------------
(* the HTTP API: one request, handled by one of the endpoints *)

api_min_length == 1
api_max_length == 50000

\* the fields EventCreateRequest requires of event_data
required_fields == {"summary", "date", "start_time"}

\* the request does not pass its pydantic model
Unprocessable == HttpResponse(422, FALSE, "Unprocessable Entity", "None")

ApiEmailContents == EmailTexts

GmailIdArg == "18c2a4b5d6e7f890"

\* what fetch_email_by_message_id_header and fetch_email_by_gmail_id return
FetchedEmails ==
    {"Subject: Team meeting\nFrom: ana@example.com\n\nTeam meeting on 2024-01-15 at 14:30 in Room A",
     "Subject: Offer\n\n<script>alert(1)</script> see data:text/html",
     "Subject: \n\n"}

\* records whose values are strings or null
ApiRecords == {d \in WorkflowRecords : \A k \in DOMAIN d : d[k].t \in {"none", "str"}}

ApiResponses == {Dumps(d) : d \in ApiRecords} \cup MalformedResponses

\* the ways a call of extract_event_details(text) can end
ExtractOutcomes(text) ==
    {[response |-> response, r |-> extract_event_details(text, 0, "", response)] :
        response \in ApiResponses}
    \cup {[response |-> "", r |-> extract_event_details(text, fail_at, e, "")] :
            fail_at \in 1..Len(ExtractCalls(text)), e \in ErrorMessages}

InitApi ==
    /\ pc = "http_request"
    /\ raw_email = ""
    /\ email_text = ""
    /\ response_text = ""
    /\ http_request = NoRequest
    /\ http_response = NoResponse
    /\ calendar_result = "None"
    /\ service = NoService
    /\ extracted = NoDict
    /\ event_data = NoDict
    /\ first_result = [data |-> NoDict, printed |-> <<>>]
    /\ printed = <<>>
    /\ calls = <<>>
    /\ raised = "none"
    /\ reads = <<>>
    /\ confirmed = FALSE
    /\ exit_status = -1
    /\ outcome = "RUNNING"

\* POST /api/parse-email
ParseEmail ==
    /\ pc = "http_request"
    /\ pc' = "http_response"
    /\ \E email_content \in ApiEmailContents :
         /\ http_request' = HttpRequest("/api/parse-email",
                                        [k \in {"email_content"} |-> PyStr(email_content)])
         /\ IF \/ Len(email_content) < api_min_length
               \/ Len(email_content) > api_max_length
               \/ Len(Strip(email_content)) = 0
            THEN /\ http_response' = Unprocessable
                 /\ UNCHANGED <<raw_email, email_text, response_text, extracted, event_data,
                                calls, raised>>
            ELSE \E x \in ExtractOutcomes(Strip(email_content)) :
                   /\ raw_email' = email_content
                   /\ email_text' = Strip(email_content)
                   /\ calls' = Append(calls, Call("extract_event_details",
                                                  Strip(email_content), NoDict)) \o x.r.calls
                   /\ response_text' = x.response
                   /\ raised' = x.r.exc
                   /\ extracted' = x.r.data
                   /\ event_data' = x.r.data
                   /\ http_response' =
                        IF x.r.exc = "none"
                        THEN HttpResponse(200, TRUE, "Event details extracted successfully", "None")
                        ELSE HttpResponse(500, FALSE, "Failed to parse email", "None")
    /\ UNCHANGED <<calendar_result, first_result, printed, reads, confirmed, exit_status, outcome>>
    /\ UNCHANGED service

\* POST /api/create-event
CreateEvent ==
    /\ pc = "http_request"
    /\ pc' = "http_response"
    /\ \E d \in ApiRecords, auth_ok \in BOOLEAN, insert_ok \in BOOLEAN :
         \* the body of the request is {"event_data": d}
         /\ http_request' = HttpRequest("/api/create-event", d)
         /\ IF \E field \in required_fields : field \notin DOMAIN d \/ ~Truthy(d[field])
            THEN /\ http_response' = Unprocessable
                 /\ UNCHANGED <<event_data, calls, calendar_result>>
            ELSE /\ event_data' = d
                 /\ calls' = Append(calls, Call("Calendar", "", d))
                 /\ calendar_result' = Calendar(d, auth_ok, insert_ok)
                 /\ http_response' =
                      HttpResponse(200, TRUE, "Calendar event created successfully",
                                   Calendar(d, auth_ok, insert_ok))
    /\ UNCHANGED <<raw_email, email_text, response_text, extracted, first_result, printed,
                   raised, reads, confirmed, exit_status, outcome>>
    /\ UNCHANGED service

\* the identifier fields a request body can carry: absent, empty or given
WorkflowBodies ==
    {MkDict([k \in {"message_id", "gmail_id", "create_event"} |->
                CASE k = "message_id" -> m [] k = "gmail_id" -> g [] OTHER -> PyBool(c)]) :
        m \in {Missing, PyStr(""), PyStr(MessageIdArg)},
        g \in {Missing, PyStr(""), PyStr(GmailIdArg)},
        c \in BOOLEAN}

\* CompleteWorkflowRequest.validate_identifiers raises ValueError for the field;
\* pydantic runs a validator only for a field the body supplies, with the
\* fields validated before it as values
validate_identifiers(body, field, values) ==
    /\ field \in DOMAIN body
    /\ ~Truthy(body[field])
    /\ ~Truthy(Get(values, "message_id"))
    /\ ~Truthy(Get(values, "gmail_id"))

\* the body does not pass CompleteWorkflowRequest: message_id is validated
\* first, then gmail_id with message_id among the values
CompleteWorkflowRequestInvalid(body) ==
    \/ validate_identifiers(body, "message_id", NoDict)
    \/ validate_identifiers(body, "gmail_id",
                            [k \in {"message_id"} |-> Get(body, "message_id")])

\* POST /api/complete-workflow
CompleteWorkflow ==
    /\ pc = "http_request"
    /\ pc' = "http_response"
    /\ \E body \in WorkflowBodies, fetched \in BOOLEAN, email_content \in FetchedEmails,
          auth_ok \in BOOLEAN, insert_ok \in BOOLEAN :
         LET message_id == Get(body, "message_id")
             gmail_id == Get(body, "gmail_id")
             create_event == Truthy(body["create_event"])
             fetch == IF Truthy(message_id)
                      THEN Call("fetch_email_by_message_id_header", message_id.s, NoDict)
                      ELSE Call("fetch_email_by_gmail_id", gmail_id.s, NoDict)
             failed == HttpResponse(500, FALSE, "Complete workflow failed", "None")
         IN  /\ http_request' = HttpRequest("/api/complete-workflow", body)
             /\ IF CompleteWorkflowRequestInvalid(body)
                THEN /\ http_response' = Unprocessable
                     /\ UNCHANGED <<raw_email, email_text, response_text, extracted,
                                    event_data, calls, raised, calendar_result>>
                ELSE IF ~Truthy(message_id) /\ ~Truthy(gmail_id)
                THEN \* raise ValueError("Either message_id or gmail_id must be provided")
                     /\ raised' = "ValueError"
                     /\ http_response' = failed
                     /\ UNCHANGED <<raw_email, email_text, response_text, extracted,
                                    event_data, calls, calendar_result>>
                ELSE IF ~fetched
                THEN /\ calls' = Append(calls, fetch)
                     /\ raised' = "Exception"
                     /\ http_response' = failed
                     /\ UNCHANGED <<raw_email, email_text, response_text, extracted,
                                    event_data, calendar_result>>
                ELSE \E x \in ExtractOutcomes(email_content) :
                       /\ raw_email' = email_content
                       /\ email_text' = email_content
                       /\ response_text' = x.response
                       /\ raised' = x.r.exc
                       /\ extracted' = x.r.data
                       /\ event_data' = x.r.data
                       /\ calls' = calls \o <<fetch, Call("extract_event_details",
                                                          email_content, NoDict)>>
                                     \o x.r.calls
                                     \o (IF x.r.exc = "none" /\ create_event
                                         THEN <<Call("Calendar", "", x.r.data)>> ELSE <<>>)
                       /\ calendar_result' =
                            IF x.r.exc = "none" /\ create_event
                            THEN Calendar(x.r.data, auth_ok, insert_ok)
                            ELSE calendar_result
                       /\ http_response' =
                            IF x.r.exc # "none" THEN failed
                            ELSE HttpResponse(200, TRUE,
                                              "Complete workflow executed successfully",
                                              IF create_event
                                              THEN Calendar(x.r.data, auth_ok, insert_ok)
                                              ELSE "None")
    /\ UNCHANGED <<first_result, printed, reads, confirmed, exit_status, outcome>>
    /\ UNCHANGED service

NextApi ==
    \/ ParseEmail
    \/ CreateEvent
    \/ CompleteWorkflow

SpecApi == InitApi /\ [][NextApi]_vars

-----------------------------------------------------------------------------
(* validate_extracted_data on its own: every input record, validated twice *)

MaxTimeLen == 5

RECURSIVE StringsUpTo(_, _)
\* every string of at most n characters of the alphabet
StringsUpTo(alphabet, n) ==
    IF n = 0 THEN {""}
    ELSE LET shorter == StringsUpTo(alphabet, n - 1)
         IN  shorter \cup {s \o c : s \in shorter, c \in alphabet}

DateStrings ==
    {y \o sep \o m \o sep \o d :
        y \in {"2024", "2023", "0000", "24"}, sep \in {"-", "/"},
        m \in {"01", "1", "02", "2", "12", "13", "00"},
        d \in {"05", "5", " 5", "29", "30", "31", "40", "00"}}
    \cup {"", "15/01/2024", "2024-13-40", "invalid-date", "2024-01-15 ",
          " 2024-01-15", "2024-01-15T10:00", "January 15, 2024"}

TimeStrings ==
    StringsUpTo({"0", "2", "9", ":"}, MaxTimeLen)
    \cup {"14:30", "2:30 PM", "9:05", "23:59", "24:00", "12:60", "14.30",
          "14:30:00", "invalid-time", " 9:05"}

NonStrings == {None, PyInt(0), PyInt(20240115), PyBool(TRUE), PyBool(FALSE)}

FewDates == {Missing, PyStr("2024-01-15"), PyStr("15/01/2024"), PyStr("2024-1-5")}
FewTimes == {Missing, PyStr("14:30"), PyStr("2:30 PM"), PyStr("9:05")}

\* a record with a key that is none of the four
WithExtra(d) == [k \in DOMAIN d \cup {"attendees"} |-> IF k \in DOMAIN d THEN d[k] ELSE PyInt(3)]

ValidateInputs ==
    LET sm == PyStr("Team Meeting")
        lc == PyStr("Conference Room A")
        by_date == {Record4(sm, dt, tm, lc) :
                       dt \in {PyStr(x) : x \in DateStrings} \cup NonStrings, tm \in FewTimes}
        by_time == {Record4(sm, dt, tm, lc) :
                       dt \in FewDates, tm \in {PyStr(x) : x \in TimeStrings} \cup NonStrings}
        by_keys == {Record4(s4, dt, tm, l4) :
                       s4 \in {Missing, None, PyStr(""), sm, PyStr("<b>Kaigi</b> #1 @ 5pm!"), PyInt(7)},
                       dt \in FewDates \cup {None, PyStr("")},
                       tm \in FewTimes \cup {None, PyStr("")},
                       l4 \in {Missing, None, lc, PyStr("")}}
    IN  by_date \cup by_time \cup by_keys \cup {WithExtra(d) : d \in by_keys}

InitValidate ==
    /\ pc = "validate_extracted_data"
    /\ response_text = ""
    /\ http_request = NoRequest
    /\ http_response = NoResponse
    /\ calendar_result = "None"
    /\ service = NoService
    /\ extracted \in ValidateInputs
    /\ event_data = extracted
    /\ raw_email = ""
    /\ email_text = ""
    /\ first_result = [data |-> NoDict, printed |-> <<>>]
    /\ printed = <<>>
    /\ calls = <<>>
    /\ raised = "none"
    /\ reads = <<>>
    /\ confirmed = FALSE
    /\ exit_status = -1
    /\ outcome = "RUNNING"

\* validate_extracted_data applied to the record it returned
Revalidate ==
    /\ pc = "display_event_details"
    /\ LET r == validate_extracted_data(event_data)
       IN  /\ event_data' = r.data
           /\ printed' = printed \o r.out
           /\ raised' = r.exc
           /\ pc' = IF r.exc = "none" THEN "revalidated" ELSE "exit"
    /\ UNCHANGED <<raw_email, email_text, response_text, http_request, http_response, calendar_result, extracted, first_result, calls, reads,
                   confirmed, exit_status, outcome>>
    /\ UNCHANGED service

NextValidate == ValidateExtractedData \/ Revalidate

SpecValidate == InitValidate /\ [][NextValidate]_vars

-----------------------------------------------------------------------------
(* validate_email_input on its own *)

MaxPieces == 3

Pieces ==
    {"<script", "</script>", "javascript:", "data:", "<scr", "ipt", " ",
     "Meeting at", "2pm Room A"}

RECURSIVE Concatenations(_)
\* every concatenation of at most n pieces
Concatenations(n) ==
    IF n = 0 THEN {""}
    ELSE LET shorter == Concatenations(n - 1)
         IN  shorter \cup {s \o p : s \in shorter, p \in Pieces}

\* a sentence long enough to pass the minimum-length check on its own
Sentence == " Team meeting on Friday at 2pm"

\* the concatenations alone and followed by the sentence, and the texts of a run
SanitizeInputs ==
    Concatenations(MaxPieces) \cup {s \o Sentence : s \in Concatenations(MaxPieces)}
        \cup EmailTexts

InitSanitize ==
    /\ pc = "validate_email_input"
    /\ raw_email \in SanitizeInputs
    /\ email_text = raw_email
    /\ response_text = ""
    /\ http_request = NoRequest
    /\ http_response = NoResponse
    /\ calendar_result = "None"
    /\ service = NoService
    /\ extracted = NoDict
    /\ event_data = NoDict
    /\ first_result = [data |-> NoDict, printed |-> <<>>]
    /\ printed = <<>>
    /\ calls = <<>>
    /\ raised = "none"
    /\ reads = <<>>
    /\ confirmed = FALSE
    /\ exit_status = -1
    /\ outcome = "RUNNING"

NextSanitize == ValidateEmailInput

SpecSanitize == InitSanitize /\ [][NextSanitize]_vars

-----------------------------------------------------------------------------
(* validate_email_input on texts around the maximum length *)

MaxOver == 2

RECURSIVE Rep(_, _)
\* s repeated n times
Rep(s, n) ==
    IF n = 0 THEN ""
    ELSE IF n % 2 = 1 THEN s \o Rep(s, n - 1)
    ELSE LET half == Rep(s, n \div 2) IN half \o half

\* a text of n characters without whitespace or denylisted substring
Fill(n) == SubSeq(Rep("meeting,", n \div 8 + 1), 1, n)

Leads == {"", " \n", "data:", "<script>"}
Trails == {"", " ", "javascript:", " end"}

LongInputs ==
    {lead \o Fill(max_length + d) \o trail :
        lead \in Leads, d \in (0 - MaxOver)..MaxOver, trail \in Trails}
    \cup {"x" \o Rep(" ", max_length + d) \o "y" : d \in (0 - MaxOver)..MaxOver}

InitTruncate ==
    /\ pc = "validate_email_input"
    /\ raw_email \in LongInputs \cup EmailTexts
    /\ email_text = raw_email
    /\ response_text = ""
    /\ http_request = NoRequest
    /\ http_response = NoResponse
    /\ calendar_result = "None"
    /\ service = NoService
    /\ extracted = NoDict
    /\ event_data = NoDict
    /\ first_result = [data |-> NoDict, printed |-> <<>>]
    /\ printed = <<>>
    /\ calls = <<>>
    /\ raised = "none"
    /\ reads = <<>>
    /\ confirmed = FALSE
    /\ exit_status = -1
    /\ outcome = "RUNNING"

NextTruncate == ValidateEmailInput

SpecTruncate == InitTruncate /\ [][NextTruncate]_vars

-----------------------------------------------------------------------------
(* get_email_input on a command-line argument *)

\* arguments around the tests of is_message_id_header, none a .txt path
HeaderArgs ==
    {m[1] \o l \o a \o d \o m[2] :
        m \in {<<"", "">>, <<" ", "\n">>, <<"", " ">>},
        l \in {"", "ab", "abc123", "a b", "test-message"},
        a \in {"", "@", "@x@"},
        d \in {"", "x", "e.co", "nodotordash", "mail-server", "e. co", "example.com"}}
    \cup {Rep("a", n) \o "@b.c" : n \in {5, 6, 196, 197}}
    \cup {" " \o Rep("a", 196) \o "@b-c ", "  " \o Rep("a", 197) \o "@b-c"}

\* main after load_environment returned
InitGetEmailInput ==
    /\ pc = "get_email_input"
    /\ raw_email = ""
    /\ email_text = ""
    /\ response_text = ""
    /\ http_request = NoRequest
    /\ http_response = NoResponse
    /\ calendar_result = "None"
    /\ service = NoService
    /\ extracted = NoDict
    /\ event_data = NoDict
    /\ first_result = [data |-> NoDict, printed |-> <<>>]
    /\ printed = <<Msg("Environment loaded", None, <<>>)>>
    /\ calls = <<>>
    /\ raised = "none"
    /\ reads = <<>>
    /\ confirmed = FALSE
    /\ exit_status = -1
    /\ outcome = "RUNNING"

NextGetEmailInput == GetEmailInputFrom(HeaderArgs)

SpecGetEmailInput == InitGetEmailInput /\ [][NextGetEmailInput]_vars

-----------------------------------------------------------------------------
(* Calendar on one record *)

CalendarDates ==
    {PyStr(x) : x \in {"2024-01-15", "2024-01-31", "2024-02-28", "2024-02-29",
                       "2023-02-28", "2100-02-28", "2000-02-29", "2024-04-30",
                       "2024-12-31", "9999-12-31", "0999-12-31", "0050-01-01",
                       "2024-1-5", "tomorrow", ""}}
    \cup {None, Missing}

CalendarTimes ==
    {PyStr(x) : x \in {"00:00", "09:05", "14:30", "22:59", "23:00", "23:59",
                       "9:30", "24:00", "2pm"}}
    \cup {None, Missing}

CalendarRecords ==
    {Record4(sm, dt, tm, lc) :
        sm \in {PyStr("Team Meeting"), Missing}, dt \in CalendarDates,
        tm \in CalendarTimes, lc \in {PyStr("Room A"), None, Missing}}

InitCalendar ==
    /\ pc = "Calendar"
    /\ raw_email = ""
    /\ email_text = ""
    /\ response_text = ""
    /\ http_request = NoRequest
    /\ http_response = NoResponse
    /\ calendar_result = "None"
    /\ service = NoService
    /\ extracted = NoDict
    /\ event_data \in CalendarRecords
    /\ first_result = [data |-> NoDict, printed |-> <<>>]
    /\ printed = <<>>
    /\ calls = <<>>
    /\ raised = "none"
    /\ reads = <<>>
    /\ confirmed = FALSE
    /\ exit_status = -1
    /\ outcome = "RUNNING"

\* result = Calendar(event_data)
CallCalendar ==
    /\ pc = "Calendar"
    /\ pc' = "returned"
    /\ \E auth_exc \in {"none", "RefreshError"},
          insert_exc \in {"none", "HttpError", "Exception"}, padded \in BOOLEAN :
         \E r \in {CalendarRun(event_data, auth_exc, insert_exc, padded)} :
            /\ calls' = <<Call("Calendar", "", event_data)>> \o r.calls
            /\ calendar_result' = r.result
            /\ raised' = r.exc
            /\ printed' = r.out
    /\ UNCHANGED <<raw_email, email_text, response_text, http_request, http_response,
                   extracted, event_data, first_result, reads, confirmed, exit_status,
                   outcome>>
    /\ UNCHANGED service

NextCalendar == CallCalendar

SpecCalendar == InitCalendar /\ [][NextCalendar]_vars

-----------------------------------------------------------------------------
(* the HTTP service handling several /api/parse-email requests *)

MaxRuns == 2

\* a request that was received and whose handler has not started
ReceivedRuns ==
    {[pc |-> "received", project_id |-> p, location |-> l, issued |-> <<>>,
      response |-> "", event_data |-> NoDict] :
        p \in {"project-a", "project-b"}, l \in {"asia-northeast1", "us-central1"}}

InitService ==
    /\ pc = "serving"
    /\ raw_email = ""
    /\ email_text = ""
    /\ response_text = ""
    /\ http_request = NoRequest
    /\ http_response = NoResponse
    /\ calendar_result = "None"
    /\ service \in [vertexai : {<<>>}, runs : [1..MaxRuns -> ReceivedRuns]]
    /\ extracted = NoDict
    /\ event_data = NoDict
    /\ first_result = [data |-> NoDict, printed |-> <<>>]
    /\ printed = <<>>
    /\ calls = <<>>
    /\ raised = "none"
    /\ reads = <<>>
    /\ confirmed = FALSE
    /\ exit_status = -1
    /\ outcome = "RUNNING"

\* a variant in which handlers run in threads that preempt one another
EventLoopIdle_Preemptive == TRUE

\* no handler is between its first and its last statement: the handlers are
\* "async def" coroutines without an await, so the event loop runs each of
\* them to its end before it starts another
EventLoopIdle == \A q \in DOMAIN service.runs : service.runs[q].pc \in {"received", "responded"}

\* the run r with the fields of f replaced
WithRun(r, f) ==
    [service EXCEPT !.runs[r] = [k \in DOMAIN @ |-> IF k \in DOMAIN f THEN f[k] ELSE @[k]]]

\* the handler of r starts: vertexai.init(project=project_id, location=location)
VertexaiInit(r) ==
    /\ service.runs[r].pc = "received"
    /\ EventLoopIdle
    /\ service' = [WithRun(r, [pc |-> "initialized"]) EXCEPT
                      !.vertexai = <<service.runs[r].project_id, service.runs[r].location>>]

\* model.generate_content(prompt): the request goes to the project and location
\* of vertexai's configuration
GenerateContent(r) ==
    /\ service.runs[r].pc = "initialized"
    /\ \E response \in JsonTexts :
         service' = WithRun(r, [pc |-> "generated", issued |-> service.vertexai,
                                response |-> response])

\* event_details = json.loads(...); the handler returns its response
Respond(r) ==
    /\ service.runs[r].pc = "generated"
    /\ service' = WithRun(r, [pc |-> "responded",
                              event_data |-> extract_event_details(
                                  "", 0, "", service.runs[r].response).data])

NextService ==
    /\ pc = "serving"
    /\ \E r \in DOMAIN service.runs : VertexaiInit(r) \/ GenerateContent(r) \/ Respond(r)
    /\ UNCHANGED <<pc, raw_email, email_text, response_text, http_request, http_response,
                   calendar_result, extracted, event_data, first_result, printed, calls,
                   raised, reads, confirmed, exit_status, outcome>>

SpecService == InitService /\ [][NextService]_vars

-----------------------------------------------------------------------------
(* Properties *)

\* Calendar was called in this run
CalendarCalled == \E i \in 1..Len(calls) : calls[i].fn = "Calendar"

\* the lines read at the confirmation prompt
ConfirmLines == {i \in 1..Len(reads) : reads[i].at = "confirm"}

\* display_event_details has run, so the confirmation step is next or done
Displayed == \E i \in 1..Len(printed) : printed[i].kind = "EXTRACTED EVENT DETAILS"

\* the "Missing critical information" notices printed in this run
MissingNotices == {i \in 1..Len(printed) : printed[i].kind = "Missing critical information"}

\* validate_extracted_data returned (it did not raise)
ValidateReturned == pc = "display_event_details"

\* a string of the form YYYY-MM-DD, zero-padded, that names a calendar date
IsCanonicalDate(v) ==
    /\ v.t = "str" /\ Len(v.s) = 10
    /\ \A i \in {1, 2, 3, 4, 6, 7, 9, 10} : Ch(v.s, i) \in Digits
    /\ Ch(v.s, 5) = "-" /\ Ch(v.s, 8) = "-"
    /\ LET y == ToInt(SubSeq(v.s, 1, 4))
           m == ToInt(SubSeq(v.s, 6, 7))
           d == ToInt(SubSeq(v.s, 9, 10))
       IN  y >= 1 /\ m \in 1..12 /\ d >= 1 /\ d <= DaysInMonth(y, m)

\* a string of the form HH:MM, zero-padded, 00:00 to 23:59
IsCanonicalTime(v) ==
    /\ v.t = "str" /\ Len(v.s) = 5
    /\ \A i \in {1, 2, 4, 5} : Ch(v.s, i) \in Digits
    /\ Ch(v.s, 3) = ":"
    /\ ToInt(SubSeq(v.s, 1, 2)) <= 23 /\ ToInt(SubSeq(v.s, 4, 5)) <= 59

\* C1: Calendar is called in a run only if the operator answered 'y' or 'yes'
\* (case-insensitive, trimmed) at the confirmation prompt and summary, date and
\* start_time of the validated record are all non-null; and it is called with
\* that record.
C1_CreationOnlyAfterConfirmation ==
    CalendarCalled =>
        /\ \E i \in ConfirmLines :
              /\ reads[i].kind = "line"
              /\ Lower(Strip(reads[i].text)) \in {"y", "yes"}
        /\ \A f \in {"summary", "date", "start_time"} :
              f \in DOMAIN event_data /\ event_data[f] # None
        /\ \A i \in 1..Len(calls) : calls[i].fn = "Calendar" => calls[i].data = event_data

\* C1 witness: the operator typed " YES " and Calendar was called
C1_Witness ==
    /\ CalendarCalled
    /\ \E i \in ConfirmLines : reads[i].text = " YES "

\* C2 as stated: when a critical field of the validated record is null, the
\* confirmation step reads nothing, the run ends CANCELLED and the notice names
\* exactly the critical fields that are null.  Stated for the records whose date
\* and start_time are null or in canonical form, so that a violation does not
\* rest on a value validate should have nulled.
C2_NoticeNamesExactlyTheNullFields ==
    (/\ pc = "exit" /\ Displayed
     /\ \E f \in {"summary", "date", "start_time"} : event_data[f] = None
     /\ event_data["date"] = None \/ IsCanonicalDate(event_data["date"])
     /\ event_data["start_time"] = None \/ IsCanonicalTime(event_data["start_time"]))
    => /\ ConfirmLines = {}
       /\ outcome = "CANCELLED" /\ exit_status = 0
       /\ Cardinality(MissingNotices) = 1
       /\ \A i \in MissingNotices :
             printed[i].fields = SelectSeq(critical_fields, LAMBDA f : event_data[f] = None)

\* the values Python takes as false
Falsy == {None, PyStr(""), PyInt(0), PyBool(FALSE)}

\* C2 amended: when a critical field of the validated record is null, the
\* confirmation step reads nothing, the run ends CANCELLED and the notice names
\* exactly the critical fields that are null or otherwise falsy (the empty
\* string, 0, false): every null one, and the empty ones besides.
C2_NoticeNamesExactlyTheFalsyFields ==
    (pc = "exit" /\ Displayed /\ \E f \in {"summary", "date", "start_time"} : event_data[f] = None)
    => /\ ConfirmLines = {}
       /\ outcome = "CANCELLED" /\ exit_status = 0
       /\ Cardinality(MissingNotices) = 1
       /\ \A i \in MissingNotices :
             printed[i].fields = SelectSeq(critical_fields, LAMBDA f : event_data[f] \in Falsy)

\* C2 witness: a run refused without a prompt whose record has a null date and
\* an empty summary
C2_Witness ==
    /\ pc = "exit" /\ Displayed /\ outcome = "CANCELLED"
    /\ event_data["date"] = None /\ event_data["summary"] = PyStr("")
    /\ \E i \in MissingNotices : printed[i].fields = <<"summary", "date">>

\* C3: the record validate returns has all four keys, and every key that was
\* absent from the input is null.
C3_AllKeysPresent ==
    ValidateReturned =>
        /\ {"summary", "date", "start_time", "location"} \subseteq DOMAIN event_data
        /\ \A k \in {"summary", "date", "start_time", "location"} \ DOMAIN extracted :
              event_data[k] = None

\* C3 witness: the input {"summary": "Test Meeting"}-like record, validated
C3_Witness ==
    /\ ValidateReturned
    /\ DOMAIN extracted = {"summary"}
    /\ event_data["date"] = None /\ event_data["location"] = None

\* C4: after validate the date is null or an exact YYYY-MM-DD calendar date:
\* every non-null input date that is not one (the empty string, 15/01/2024,
\* 2024-13-40, a form without zero padding) is set to null, and every valid
\* YYYY-MM-DD input is kept.
C4_DateNullOrCanonical ==
    ValidateReturned =>
        /\ event_data["date"] = None \/ IsCanonicalDate(event_data["date"])
        /\ ("date" \in DOMAIN extracted /\ extracted["date"] # None
               /\ ~IsCanonicalDate(extracted["date"]))
              => event_data["date"] = None
        /\ ("date" \in DOMAIN extracted /\ IsCanonicalDate(extracted["date"]))
              => event_data["date"] = extracted["date"]

\* C5: after validate the start_time is null or an exact 24-hour HH:MM: every
\* non-null input start_time that is not one (the empty string, '2:30 PM',
\* '9:05') is set to null, and every valid HH:MM input is kept.
C5_TimeNullOrCanonical ==
    ValidateReturned =>
        /\ event_data["start_time"] = None \/ IsCanonicalTime(event_data["start_time"])
        /\ ("start_time" \in DOMAIN extracted /\ extracted["start_time"] # None
               /\ ~IsCanonicalTime(extracted["start_time"]))
              => event_data["start_time"] = None
        /\ ("start_time" \in DOMAIN extracted /\ IsCanonicalTime(extracted["start_time"]))
              => event_data["start_time"] = extracted["start_time"]

\* C6: validate changes nothing but (a) adding the missing ones of the four keys
\* as null and (b) nulling a date or start_time whose format check failed:
\* summary, location and every other key are as in the input, and date and
\* start_time are each either as in the input or nulled for their own failure.
C6_ValidateFrame ==
    ValidateReturned =>
        /\ DOMAIN event_data = DOMAIN extracted \cup {"summary", "date", "start_time", "location"}
        /\ \A k \in DOMAIN extracted \ {"date", "start_time"} : event_data[k] = extracted[k]
        /\ "date" \in DOMAIN extracted =>
              \/ event_data["date"] = extracted["date"]
              \/ event_data["date"] = None /\ StrptimeDate(extracted["date"]) = "ValueError"
        /\ "start_time" \in DOMAIN extracted =>
              \/ event_data["start_time"] = extracted["start_time"]
              \/ /\ event_data["start_time"] = None
                 /\ StrptimeTime(extracted["start_time"]) = "ValueError"

\* C6 witness: a record with a fifth key whose date was nulled and whose
\* start_time, summary and location were kept
C6_Witness ==
    /\ ValidateReturned
    /\ "attendees" \in DOMAIN extracted
    /\ Get(extracted, "date") = PyStr("15/01/2024") /\ event_data["date"] = None
    /\ event_data["start_time"] = PyStr("14:30")
    /\ event_data["summary"] = PyStr("<b>Kaigi</b> #1 @ 5pm!")

\* C7: validate is idempotent: applied to the record it returned, it returns the
\* same record, prints no warning and does not raise.
C7_ValidateIdempotent ==
    /\ pc = "revalidated" => event_data = first_result.data /\ printed = first_result.printed
    /\ first_result.data # NoDict => raised = "none"

\* C7 witness: the second application of validate to a record whose first
\* application printed two warnings
C7_Witness ==
    /\ pc = "revalidated"
    /\ Len(first_result.printed) = 2
    /\ event_data["date"] = None /\ event_data["start_time"] = None

\* C8: validate never raises because of the value of date or start_time (wrong
\* format, wrong type, empty): it returns a record and main goes on to the
\* display step.
C8_ValidateNeverRaises ==
    pc # "validate_extracted_data" =>
        /\ pc \in {"display_event_details", "revalidated"}
        /\ raised = "none" /\ outcome = "RUNNING"

\* the format check of a field failed: the value is a non-empty string that
\* strptime rejects
FailsDateCheck(d) ==
    /\ "date" \in DOMAIN d /\ d["date"].t = "str" /\ d["date"].s # ""
    /\ StrptimeDateStr(d["date"].s) = "ValueError"
FailsTimeCheck(d) ==
    /\ "start_time" \in DOMAIN d /\ d["start_time"].t = "str" /\ d["start_time"].s # ""
    /\ StrptimeTimeStr(d["start_time"].s) = "ValueError"

SanitizeSucceeded == pc = "extract_event_details" /\ raised = "none"
SanitizeFailed == pc = "exit" /\ raised = "ValueError" /\ outcome = "FAILED"

\* C10 as stated: sanitize fails for every input whose trimmed length is below
\* 20 and succeeds for every non-empty input whose trimmed length is at least 20.
C10_MinLengthOnTrimmedInput ==
    pc # "validate_email_input" =>
        /\ Len(Strip(raw_email)) < min_length => SanitizeFailed
        /\ Len(Strip(raw_email)) >= min_length => SanitizeSucceeded

\* C10 amended: sanitize fails for every input whose trimmed length is below 20,
\* and it succeeds exactly for the inputs whose text after trimming, removal of
\* the denylisted substrings and truncation still has a trimmed length of at
\* least 20.
C10_MinLengthAfterSanitization ==
    pc # "validate_email_input" =>
        LET left == Strip(Sanitized(raw_email).text)
        IN  /\ SanitizeSucceeded \/ SanitizeFailed
            /\ Len(Strip(raw_email)) < min_length => SanitizeFailed
            /\ SanitizeSucceeded <=> Len(left) >= min_length
            /\ SanitizeSucceeded => email_text = Sanitized(raw_email).text

\* C10 witness: an input of at least 20 characters that is rejected as too short
\* once its denylisted substrings are removed
C10_Witness ==
    /\ SanitizeFailed
    /\ Len(Strip(raw_email)) >= min_length
    /\ \E i \in 1..Len(printed) :
          printed[i].value = PyStr("Email content too short.")

\* the positions of t that lie inside an occurrence of a denylisted substring
Covered(t) ==
    {i \in 1..Len(t) :
        \E k \in 1..Len(dangerous_patterns) :
            LET p == dangerous_patterns[k]
            IN  \E j \in (i - Len(p) + 1)..i :
                    /\ j >= 1 /\ j + Len(p) - 1 <= Len(t)
                    /\ SubSeq(t, j, j + Len(p) - 1) = p}

RECURSIVE KeepFrom(_, _, _)
\* the characters of t from position i on that are not in drop
KeepFrom(t, i, drop) ==
    IF i > Len(t) THEN ""
    ELSE (IF i \in drop THEN "" ELSE Ch(t, i)) \o KeepFrom(t, i + 1, drop)

\* t without the occurrences of denylisted substrings it contains
WithoutOccurrences(t) == KeepFrom(t, 1, Covered(t))

HasDenylisted(t) ==
    \E k \in 1..Len(dangerous_patterns) : Contains(t, dangerous_patterns[k])

\* C11 as stated: whenever sanitize returns successfully, the returned text
\* contains no occurrence of any denylisted substring, whatever the input.
C11_NoDenylistedSubstringReturned ==
    SanitizeSucceeded => ~HasDenylisted(email_text)

\* C11 amended: whenever sanitize returns successfully, every occurrence of a
\* denylisted substring in the trimmed input has been removed; the returned text
\* is free of denylisted substrings whenever removing those occurrences does not
\* bring the pieces of another one together (removal is one pass per pattern).
C11_OccurrencesOfTheInputRemoved ==
    SanitizeSucceeded =>
        LET flat == WithoutOccurrences(Strip(raw_email))
        IN  ~HasDenylisted(flat) =>
                /\ ~HasDenylisted(email_text)
                /\ email_text = IF Len(flat) > max_length
                                THEN SubSeq(flat, 1, max_length) ELSE flat

\* C11 witness: an input with a denylisted substring, returned without it
C11_Witness ==
    /\ SanitizeSucceeded
    /\ HasDenylisted(Strip(raw_email))
    /\ ~HasDenylisted(WithoutOccurrences(Strip(raw_email)))
    /\ ~HasDenylisted(email_text)

\* the truncation warnings printed in this run
TruncationWarnings ==
    {i \in 1..Len(printed) : printed[i].kind = "Email content truncated"}

\* C12: the text sanitize returns never exceeds max_length; a text that is longer
\* than max_length after trimming and denylist removal is cut to its first
\* max_length characters with one truncation warning, a text at or below it is
\* returned whole without a warning, and the minimum-length check is applied to
\* the text after the cut.
C12_TruncatedToMaxLength ==
    (pc # "validate_email_input" /\ Len(Strip(raw_email)) > 0) =>
        LET cleaned == RemovePatterns(Strip(raw_email), dangerous_patterns)
            cut == IF Len(cleaned) > max_length
                   THEN SubSeq(cleaned, 1, max_length) ELSE cleaned
        IN  /\ SanitizeSucceeded \/ SanitizeFailed
            /\ SanitizeSucceeded => Len(email_text) <= max_length /\ email_text = cut
            /\ Len(cleaned) > max_length => Cardinality(TruncationWarnings) = 1
            /\ Len(cleaned) <= max_length => TruncationWarnings = {}
            /\ SanitizeSucceeded <=> Len(Strip(cut)) >= min_length

\* C12 witness: a text over the maximum after removal, returned cut to max_length
\* with the warning
C12_Witness ==
    /\ SanitizeSucceeded
    /\ Len(RemovePatterns(Strip(raw_email), dangerous_patterns)) > max_length
    /\ Len(email_text) = max_length
    /\ TruncationWarnings # {}

\* C13: for every JSON text J and every answer that is J between an opening fence
\* marker (with a json tag or bare) and a closing one, with or without whitespace
\* around it and with any line-break placement between marker and content,
\* extraction yields the value that parsing J yields.
C13_FencedParsesAsUnwrapped ==
    \A m \in Margins, o \in FenceOpenings, b \in Breaks, a \in Breaks, J \in JsonTexts :
        response_text = Wrapped(m, o, b, J, a) =>
            /\ raised # "JSONDecodeError"
            /\ extracted = json_loads(J).data

\* the positions in calls of the calls to fn
CallsTo(fn) == {i \in 1..Len(calls) : calls[i].fn = fn}

\* model.generate_content returned an answer (it was called and did not raise)
GenerationReturned == CallsTo("generate_content") # {} /\ raised # "Exception"

\* C14: when the model's answer is not valid JSON after fence stripping,
\* extraction raises the parse error to main, the run ends FAILED (exit 1) without
\* a validate, display, confirmation or calendar-creation step, and no record,
\* empty or partial, stands in for the answer.
C14_MalformedResponseIsFatal ==
    (GenerationReturned /\ ~json_loads(FenceStripped(response_text)).ok) =>
        /\ pc = "exit" /\ outcome = "FAILED" /\ exit_status = 1
        /\ raised = "JSONDecodeError"
        /\ extracted = NoDict /\ event_data = NoDict
        /\ first_result = [data |-> NoDict, printed |-> <<>>]
        /\ ~Displayed /\ ConfirmLines = {} /\ ~CalendarCalled
        /\ printed[Len(printed)].kind = "AI analysis failed"

\* C14 witness: the answer "Invalid JSON response" has ended the run
C14_Witness ==
    /\ GenerationReturned
    /\ response_text = "Invalid JSON response"
    /\ pc = "exit" /\ raised = "JSONDecodeError"

\* the calls of this run to the collaborators of extract_event_details
CollaboratorCalls ==
    SelectSeq(calls, LAMBDA c : c.fn \in {"authenticate_google_services", "vertexai.init",
                                          "GenerativeModel", "generate_content"})

IsPrefix(a, b) == Len(a) <= Len(b) /\ a = SubSeq(b, 1, Len(a))

\* C15: an invocation of extract_event_details issues at most one generation
\* request, after authenticate and initialize in that order and with the prompt
\* of its email text; a failure of one of these calls is raised to main, which
\* ends the run, and no call follows the one that failed.
C15_OneGenerationRequestNoRetry ==
    /\ Cardinality(CallsTo("extract_event_details")) <= 1
    /\ Cardinality(CallsTo("generate_content")) <= 1
    /\ \A i \in CallsTo("extract_event_details") :
          /\ IsPrefix(CollaboratorCalls, ExtractCalls(calls[i].text))
          /\ CollaboratorCalls # <<>>
          /\ raised = "Exception" =>
                /\ pc = "exit" /\ outcome = "FAILED" /\ exit_status = 1
                /\ calls = SubSeq(calls, 1, i) \o CollaboratorCalls
                /\ extracted = NoDict
          /\ raised # "Exception" => CallsTo("generate_content") # {}

\* C15 witness: the generation request failed and was not issued again
C15_Witness ==
    /\ raised = "Exception" /\ pc = "exit"
    /\ Cardinality(CallsTo("generate_content")) = 1
    /\ calls[Len(calls)].fn = "generate_content"

\* the handler has answered the request
Answered == pc = "http_response"

\* C16: in the HTTP endpoints that create events (/api/create-event, and
\* /api/complete-workflow with create_event true) a null result of Calendar is
\* answered as a failure, never as success.
C16_NullCalendarResultIsReportedFailed ==
    (Answered /\ CalendarCalled /\ http_response.calendar_result = "None") =>
        /\ ~http_response.success
        /\ http_response.status_code >= 400

\* C17: in a workflow (a run or request that extracts the record it creates the
\* event from) the record handed to Calendar is the output of
\* validate_extracted_data: it has the four keys, and its date and start_time are
\* canonical YYYY-MM-DD and HH:MM strings.
C17_CalendarGetsValidatedRecord ==
    CallsTo("extract_event_details") # {} =>
        \A i \in CallsTo("Calendar") :
            LET d == calls[i].data
            IN  /\ d = validate_extracted_data(extracted).data
                /\ required_keys \subseteq DOMAIN d
                /\ IsCanonicalDate(d["date"])
                /\ IsCanonicalTime(d["start_time"])

\* C18: the email text embedded in the prompt sent to the model is sanitized:
\* trimmed, free of denylisted substrings, and within the minimum and maximum
\* length.
C18_PromptTextIsSanitized ==
    \A i \in CallsTo("generate_content") :
        \E text \in {email_text} :
            /\ calls[i].text = Prompt(text)
            /\ text = Strip(text)
            /\ ~HasDenylisted(text)
            /\ Len(text) >= min_length /\ Len(text) <= max_length

\* the headline of the last line a run printed
Headline == IF printed = <<>> THEN "" ELSE printed[Len(printed)].kind

\* the run ended because validate_email_input rejected the email text
ValidationFailure ==
    /\ pc = "exit"
    /\ validate_email_input(raw_email).exc # "none"
    /\ \E i \in 1..Len(printed) : printed[i].kind = "Environment loaded"
    /\ calls \in {<<>>} \cup {<<Call("fetch_email_by_message_id_header", a, NoDict)>> :
                                   a \in {MessageIdArg}}
    /\ raised = validate_email_input(raw_email).exc

\* the headlines under which main reports a configuration error, an
\* extraction failure and a creation failure
OtherFailureHeadlines ==
    {"Configuration Error", "AI analysis failed",
     "Suggestion: Run ./setup_gcloud.sh to set up authentication",
     "Failed to create calendar event."}

\* C19: a run that creates the event and a run ended by decline, auto-refusal
\* or keyboard cancellation exit with status 0; a run ended by a validation,
\* extraction or creation failure exits with a non-zero status; and a
\* validation failure is reported under a status or headline that a
\* configuration error, an extraction failure or a creation failure does not
\* use.
C19_ExitShowsOutcome ==
    pc = "exit" =>
        /\ outcome \in {"CREATED", "CANCELLED"} => exit_status = 0
        /\ outcome = "FAILED" => exit_status # 0
        /\ ValidationFailure =>
              \/ exit_status # 1
              \/ Headline \notin OtherFailureHeadlines

\* the position in reads of a keyboard interrupt
Interrupts == {i \in 1..Len(reads) : reads[i].kind = "KeyboardInterrupt"}

\* C20: a keyboard interrupt while the email text is read or at the
\* confirmation prompt ends the run as CANCELLED with status 0; nothing is read
\* after it, Calendar is never called, and an interrupt while the email is read
\* leaves the run without any extraction call.
C20_InterruptCancels ==
    \A i \in Interrupts :
        /\ pc = "exit" /\ outcome = "CANCELLED" /\ exit_status = 0
        /\ i = Len(reads)
        /\ ~CalendarCalled
        /\ reads[i].at = "email" => calls = <<>>
        /\ reads[i].at = "confirm" =>
              /\ Cardinality(CallsTo("extract_event_details")) = 1
              /\ Headline = "Operation cancelled by user."

\* a run interrupted at the confirmation prompt, after its record was shown
C20_Witness ==
    /\ Interrupts # {}
    /\ reads[Len(reads)] = Interrupt("confirm")
    /\ \E i \in 1..Len(printed) : printed[i].kind = "EXTRACTED EVENT DETAILS"
    /\ pc = "exit" /\ outcome = "CANCELLED"

\* the request to /api/complete-workflow carries no identifier
NoIdentifier ==
    /\ http_request.endpoint = "/api/complete-workflow"
    /\ ~Truthy(Get(http_request.body, "message_id"))
    /\ ~Truthy(Get(http_request.body, "gmail_id"))

\* C21: a request to /api/complete-workflow with neither message_id nor
\* gmail_id is answered 422 by request validation, with no fetch, extraction or
\* calendar call, and never 500.
C21_NoIdentifierIsUnprocessable ==
    (Answered /\ NoIdentifier) =>
        /\ http_response.status_code = 422
        /\ calls = <<>>
        /\ raised = "none"

\* text, trimmed, has exactly one '@', no space, 10 to 200 characters, a
\* non-empty part on each side of the '@' and a '.' or '-' after it
LooksLikeMessageId(raw) ==
    LET text == Strip(raw)
        ats == {i \in 1..Len(text) : Ch(text, i) = "@"}
    IN  /\ Cardinality(ats) = 1
        /\ \A i \in 1..Len(text) : Ch(text, i) # " "
        /\ Len(text) >= 10 /\ Len(text) <= 200
        /\ \A a \in ats :
              /\ 1 < a /\ a < Len(text)
              /\ \E j \in (a + 1)..Len(text) : Ch(text, j) \in {".", "-"}

\* C22: get_email_input takes its argument for a Message-ID header (and fetches
\* the email by it) exactly when the argument, trimmed, has exactly one '@', no
\* space, a length of 10 to 200, a non-empty part on each side of the '@' and a
\* '.' or '-' after the '@'; every other argument is taken as the email text.
C22_HeaderDetectedExactlyWhenWellFormed ==
    /\ \A i \in CallsTo("fetch_email_by_message_id_header") :
          LooksLikeMessageId(calls[i].text)
    /\ (pc = "validate_email_input" /\ calls = <<>> /\ reads = <<>>) =>
          ~LooksLikeMessageId(raw_email)
    /\ ~LooksLikeMessageId("")

\* an argument of exactly 200 characters between whitespace was taken for a
\* Message-ID header
C22_Witness ==
    /\ pc = "validate_email_input"
    /\ \E i \in CallsTo("fetch_email_by_message_id_header") :
          /\ Len(Strip(calls[i].text)) = 200
          /\ calls[i].text # Strip(calls[i].text)

\* the days from 0001-01-01 to the day y-m-d
DayNumber(y, m, d) ==
    LET before == [k \in 1..12 |->
                      CASE k = 1 -> 0 [] k = 2 -> 31 [] k = 3 -> 59 [] k = 4 -> 90
                        [] k = 5 -> 120 [] k = 6 -> 151 [] k = 7 -> 181 [] k = 8 -> 212
                        [] k = 9 -> 243 [] k = 10 -> 273 [] k = 11 -> 304 [] OTHER -> 334]
    IN  365 * (y - 1) + ((y - 1) \div 4) - ((y - 1) \div 100) + ((y - 1) \div 400)
            + before[m] + (IF m > 2 /\ IsLeap(y) THEN 1 ELSE 0) + d

\* t is a timestamp YYYY-MM-DDTHH:MM:00+09:00
IsTimestamp(t) ==
    /\ Len(t) = 25
    /\ IsCanonicalDate(PyStr(SubSeq(t, 1, 10)))
    /\ Ch(t, 11) = "T"
    /\ IsCanonicalTime(PyStr(SubSeq(t, 12, 16)))
    /\ SubSeq(t, 17, 25) = ":00+09:00"

\* the day number of the timestamp t
DayOf(t) ==
    DayNumber(ToInt(SubSeq(t, 1, 4)), ToInt(SubSeq(t, 6, 7)), ToInt(SubSeq(t, 9, 10)))

\* the minutes from midnight to the time of the timestamp t
MinuteOfDay(t) == 60 * ToInt(SubSeq(t, 12, 13)) + ToInt(SubSeq(t, 15, 16))

\* the call of Calendar could not authenticate
AuthenticationFailed ==
    \E i \in 1..Len(printed) : printed[i].value = PyStr("RefreshError")

\* C23: for a record with the four keys, a valid YYYY-MM-DD date and a valid
\* HH:MM start_time, Calendar (once authenticated) submits one event whose
\* start is that date and time at +09:00 and whose end is the timestamp 60
\* minutes later, on the next calendar day when start_time is 23:00 or later.
C23_EventEndsOneHourAfterStart ==
    (/\ pc = "returned"
     /\ required_keys \subseteq DOMAIN event_data
     /\ IsCanonicalDate(event_data["date"])
     /\ IsCanonicalTime(event_data["start_time"])
     /\ ~AuthenticationFailed) =>
        /\ Cardinality(CallsTo("events.insert")) = 1
        /\ \A i \in CallsTo("events.insert") :
              LET start == calls[i].data["start"].s
                  end == calls[i].data["end"].s
              IN  /\ start = event_data["date"].s \o "T" \o event_data["start_time"].s
                                \o ":00+09:00"
                  /\ IsTimestamp(end)
                  /\ 1440 * (DayOf(end) - DayOf(start)) + MinuteOfDay(end)
                        = MinuteOfDay(start) + 60
                  /\ ToInt(SubSeq(start, 12, 13)) = 23 => DayOf(end) = DayOf(start) + 1

\* the error lines Calendar's handlers print
CalendarErrors ==
    {i \in 1..Len(printed) :
        printed[i].kind \in {"An error occurred", "An unexpected error occurred"}}

\* C24: Calendar never raises to its caller; it returns None whenever a key is
\* missing, the timestamps cannot be built, authentication fails or the insert
\* call fails, and it returns the service's result only after an insert call
\* that did not fail.
C24_CalendarReturnsNoneOnEveryFailure ==
    pc = "returned" =>
        /\ raised = "none"
        /\ calendar_result = "None" <=> CalendarErrors # {}
        /\ calendar_result # "None" => Cardinality(CallsTo("events.insert")) = 1
        /\ (\/ ~(required_keys \subseteq DOMAIN event_data)
            \/ ~IsCanonicalDate(Get(event_data, "date"))
            \/ ~IsCanonicalTime(Get(event_data, "start_time"))
            \/ AuthenticationFailed) =>
              /\ calendar_result = "None"
              /\ CallsTo("events.insert") = {}

\* Calendar returned None for a record without date, and for a failed insert
C24_Witness ==
    /\ pc = "returned"
    /\ raised = "none"
    /\ calendar_result = "None"
    /\ \/ "date" \notin DOMAIN event_data
       \/ /\ CallsTo("events.insert") # {}
          /\ \E i \in CalendarErrors : printed[i].value = PyStr("Exception")

\* the runs whose generation request was issued
Generated == {r \in DOMAIN service.runs : service.runs[r].pc \in {"generated", "responded"}}

\* C25: every run's generation request is issued against the project and
\* location passed to that run, and the record a run returns is the one parsed
\* from the answer to its own request, whatever the other runs do.
C25_RunsAreIsolated ==
    \A r \in Generated :
        /\ service.runs[r].issued = <<service.runs[r].project_id, service.runs[r].location>>
        /\ service.runs[r].pc = "responded" =>
              service.runs[r].event_data
                  = json_loads(FenceStripped(service.runs[r].response)).data

\* two runs with different projects and different answers have both responded
C25_Witness ==
    \E r, q \in Generated :
        /\ service.runs[r].pc = "responded" /\ service.runs[q].pc = "responded"
        /\ service.runs[r].project_id # service.runs[q].project_id
        /\ service.runs[r].event_data # service.runs[q].event_data

\* the positions in printed of the lines with this headline
PrintedAt(kind) == {i \in 1..Len(printed) : printed[i].kind = kind}

\* validate_extracted_data has returned a record in this run
Validated == first_result.data # NoDict

\* the confirmation step was entered: it refused by itself or it prompted
ConfirmSteps ==
    MissingNotices \cup PrintedAt("Do you want to create this calendar event? (y/n)")

\* validate_email_input raised its ValueError: the run is past the step and
\* the text was not validated
SanitizeRejected ==
    /\ pc \notin {"load_environment", "get_email_input", "validate_email_input"}
    /\ PrintedAt("Environment loaded") # {}
    /\ PrintedAt("Email content validated") = {}
    /\ raised = "ValueError"

\* C26: in a run of main the steps sanitize, extract, validate, display, confirm
\* and create happen at most once each and each only after the step before it
\* succeeded; a sanitize failure ends the run FAILED without an extraction call,
\* and an extraction failure ends it FAILED without validate, display, confirm
\* or create.
C26_StepsInOrderAtMostOnce ==
    LET sanitized == PrintedAt("Email content validated")
        analysed == PrintedAt("AI analysis completed")
        displayed == PrintedAt("EXTRACTED EVENT DETAILS")
        Before(A, B) == \A a \in A, b \in B : a < b
    IN  /\ \A S \in {sanitized, analysed, displayed, ConfirmSteps,
                      CallsTo("extract_event_details"), CallsTo("Calendar")} :
              Cardinality(S) <= 1
        /\ CallsTo("extract_event_details") # {} => sanitized # {}
        /\ analysed # {} => CallsTo("extract_event_details") # {} /\ Before(sanitized, analysed)
        /\ Validated => analysed # {}
        /\ displayed # {} => Validated /\ Before(analysed, displayed)
        /\ ConfirmSteps # {} => displayed # {} /\ Before(displayed, ConfirmSteps)
        /\ CalendarCalled => ConfirmSteps # {} /\ confirmed
        /\ SanitizeRejected =>
              /\ pc = "exit" /\ outcome = "FAILED"
              /\ CallsTo("extract_event_details") = {}
              /\ CallsTo("generate_content") = {}
        /\ PrintedAt("AI analysis failed") # {} =>
              /\ pc = "exit" /\ outcome = "FAILED"
              /\ ~Validated /\ displayed = {} /\ ConfirmSteps = {} /\ ~CalendarCalled

\* a run whose extraction failed after its text was sanitized
C26_Witness ==
    /\ PrintedAt("Email content validated") # {}
    /\ PrintedAt("AI analysis failed") # {}
    /\ CallsTo("generate_content") # {}
    /\ pc = "exit"

\* the remediation hints printed in this run
Hints == PrintedAt("Suggestion: Run ./setup_gcloud.sh to set up authentication")

\* the message names credentials or authentication
CredentialRelated(message) ==
    \E word \in {"credentials", "authentication"} : Contains(Lower(message), word)

\* C27: after an extraction failure and after a creation failure the run is at
\* exit with status 1, FAILED, and makes no further call, whatever the error
\* message says; the message decides only whether the remediation hint is
\* printed after it.
C27_HintsAreCosmetic ==
    /\ \A i \in PrintedAt("AI analysis failed") :
          /\ pc = "exit" /\ exit_status = 1 /\ outcome = "FAILED"
          /\ ~CalendarCalled
          /\ calls[Len(calls)].fn \in {ExtractCalls("")[k].fn : k \in 1..Len(ExtractCalls(""))}
          /\ Hints # {} <=> CredentialRelated(printed[i].value.s)
          /\ Hints \subseteq {i + 1}
          /\ Len(printed) = i + Cardinality(Hints)
    /\ (CalendarCalled /\ calendar_result = "None") =>
          /\ pc = "exit" /\ exit_status = 1 /\ outcome = "FAILED"
          /\ calls[Len(calls)].fn = "Calendar"
          /\ Headline = "Failed to create calendar event."

\* an extraction that failed on an authentication error, with its hint
C27_Witness ==
    /\ pc = "exit"
    /\ Hints # {}
    /\ \E i \in PrintedAt("AI analysis failed") :
          printed[i].value = PyStr("Authentication failed")

\* the run has left get_user_confirmation with a validated, displayed record
\* that has no location
ConfirmedWithoutLocation ==
    /\ Displayed
    /\ pc \in {"create_calendar_event", "exit"}
    /\ event_data["location"] = None

\* what C28 concludes: no automatic refusal, the operator was asked, and an
\* affirmative answer led to the creation step
LocationDidNotGate ==
    /\ MissingNotices = {}
    /\ PrintedAt("Do you want to create this calendar event? (y/n)") # {}
    /\ Cardinality(ConfirmLines) = 1
    /\ \A i \in ConfirmLines :
          (reads[i].kind = "line" /\ IsAffirmative(reads[i].text))
              => (confirmed /\ (pc = "create_calendar_event" \/ CalendarCalled))

TerminalOutcomes == {"CREATED", "CANCELLED", "FAILED"}

\* a step of a run that has its terminal outcome keeps it and makes no call
OutcomeIsFinal ==
    outcome \in TerminalOutcomes => (outcome' = outcome /\ calls' = calls)

\* no step is taken again: a step of a run leaves the position it was at
StepMovesOn == pc' # pc

AcceptedByCalendar(d) == CalendarRun(d, "none", "none", TRUE).result # "None"

\* C30: every record validate_extracted_data returns with a non-null date and
\* start_time is accepted by Calendar's construction of the start and end
\* timestamps, so in a confirmed run the creation step fails only in
\* authentication or in the insert call, never on the format of a date or
\* start_time that validate let through.
C30_ValidatedTimesAreAccepted ==
    /\ (ValidateReturned /\ event_data["date"] # None /\ event_data["start_time"] # None)
           => AcceptedByCalendar(event_data)
    /\ \A i \in CallsTo("Calendar") : AcceptedByCalendar(calls[i].data)

====
